---------------------------- MODULE Spec2Model ----------------------------
(***************************************************************************)
(* Event-driven image processing pipeline: the admission API               *)
(* (services/api), the worker loop (services/worker), the image processor  *)
(* (pkg/processor) and the status reader, over the three shared stores:    *)
(* the status store (Redis), the job queue (RabbitMQ) and the object store *)
(* (MinIO).                                                                *)
(***************************************************************************)
EXTENDS Integers, Sequences, FiniteSets, TLC

(***************************************************************************)
(* Bounds of the model.                                                    *)
(***************************************************************************)
\* Number of events of the environment in one run: an admission request, a
\* status request, a repeated delivery of a message, and a fault (a failed
\* status-store call, publish, source fetch or upload, a corrupt message, or
\* a stopped worker).
MaxEvents == 2

\* worker replicas competing for the queue
Workers == {"w1", "w2"}
JobIds == 1..MaxEvents

(***************************************************************************)
(* pkg/types: constants and records.                                       *)
(***************************************************************************)
StatusPending == "pending"
StatusInProgress == "in_progress"
StatusCompleted == "completed"
StatusFailed == "failed"
Terminal == {StatusCompleted, StatusFailed}

OpResize == "resize"
OpFormat == "format"
OpWatermark == "watermark"

FormatJPEG == "jpeg"
FormatPNG == "png"
FormatWebP == "webp"

\* the zero values of *time.Time and of the object-store / status-store lookups
NoTime == [none |-> "time"]
NoJob == [none |-> "job"]
NoImage == [none |-> "image"]

\* Texts the code builds by concatenation (errors, URLs, object keys) are
\* tuples of their parts; the empty string is the empty tuple.
NoError == <<>>
NoURL == <<>>
NoKey == <<>>

\* the expiration both saveJob functions pass to rdb.Set: 24*time.Hour
JobTTLHours == 24
\* a key without a value has no time to live
NoExpiry == 0

\* the services main connects to before it consumes: the status store, the
\* queue and the object store
Services == {"redis", "rabbitmq", "minio"}
\* the number of attempts of each connection wait
maxRetries == 30

ImageOperation(t, w, h, f, q, wm, key) ==
    [type |-> t, width |-> w, height |-> h, format |-> f, quality |-> q,
     watermark |-> wm, output_key |-> key]

Job(id, status, url, ops, created) ==
    [id |-> id, status |-> status, image_url |-> url, operations |-> ops,
     created_at |-> created, completed_at |-> NoTime, results |-> <<>>,
     error |-> NoError]

JobFields == {"id", "status", "image_url", "operations", "created_at",
              "completed_at", "results", "error"}

\* the zero value json.Unmarshal leaves in a field the document does not hold
ZeroValue(f) ==
    CASE f = "completed_at" -> NoTime
      [] f = "results" -> <<>>
      [] f = "error" -> NoError
      [] OTHER -> <<>>

\* `omitempty`: completed_at, results and error are left out when empty
OmittedFields(job) ==
    {f \in {"completed_at", "results", "error"} : job[f] = ZeroValue(f)}

\* json.Marshal(job): the document holds the non-omitted fields only
Marshal(job) == [f \in JobFields \ OmittedFields(job) |-> job[f]]

\* json.Unmarshal(data, &job) into a zero Job
Unmarshal(doc) ==
    [f \in JobFields |-> IF f \in DOMAIN doc THEN doc[f] ELSE ZeroValue(f)]

\* a payload json.Unmarshal rejects
MalformedBody == [malformed |-> TRUE]
\* seeded fault: only a job that reads pending is accepted
WellFormedPendingOnly(body) ==
    body # MalformedBody /\ body.status = StatusPending
WellFormed(body) == body # MalformedBody

(***************************************************************************)
(* The admission requests the model draws from.                            *)
(***************************************************************************)
HttpSource == <<"https://", "picsum.photos/800/600">>
StoredSource == <<"uploads/source.png">>
\* a storage key no object is stored under
MissingSource == <<"uploads/missing.png">>
\* the raster a reachable, decodable source decodes to
SourceRaster == [w |-> 4, h |-> 2]

\* An output key is <<"test-thumbnail">> when explicit and
\* <<"processed", id, kind, token>> when derived.
ResizeExplicit ==
    ImageOperation(OpResize, 2, 3, FormatJPEG, 90, "", <<"test-thumbnail">>)
ResizeDerived == ImageOperation(OpResize, 2, 0, FormatJPEG, 0, "", NoKey)
FormatDerived == ImageOperation(OpFormat, 0, 0, FormatPNG, 0, "", NoKey)
\* invalid parameters: an unknown kind and a negative width
BadOperation == ImageOperation("blur", -1, 0, FormatJPEG, 0, "", NoKey)

Request(method, bodyOk, url, ops) ==
    [method |-> method, decodes |-> bodyOk, image_url |-> url, operations |-> ops]

ValidRequests ==
    { Request("POST", TRUE, HttpSource, <<>>),
      Request("POST", TRUE, HttpSource, <<ResizeExplicit, FormatDerived>>),
      Request("POST", TRUE, StoredSource, <<ResizeDerived, BadOperation>>),
      Request("POST", TRUE, MissingSource, <<ResizeDerived>>) }

RejectedRequests ==
    { Request("GET", TRUE, HttpSource, <<>>),
      Request("POST", FALSE, NoURL, <<>>),
      Request("POST", TRUE, NoURL, <<ResizeDerived>>) }

Requests == ValidRequests \cup RejectedRequests


(***************************************************************************)
(* pkg/processor: the pure part of the image processor.  A raster is its   *)
(* bounds [w, h]; the resampling and the encoders are the imaging          *)
(* library's and the standard library's.                                   *)
(***************************************************************************)
Max(a, b) == IF a >= b THEN a ELSE b

\* seeded fault: the ratio is truncated
RoundRatioTruncate(num, den) == num \div den

\* floor(x + 0.5) of the ratio num/den, den > 0
RoundRatio(num, den) == (2 * num + den) \div (2 * den)

EmptyRaster == [w |-> 0, h |-> 0]

\* imaging.Resize(img, dstW, dstH, filter): a zero target side keeps the
\* aspect ratio, and is at least 1
ImagingResize(img, dstW, dstH) ==
    IF dstW < 0 \/ dstH < 0 \/ (dstW = 0 /\ dstH = 0) \/ img.w <= 0 \/ img.h <= 0
    THEN EmptyRaster
    ELSE [w |-> IF dstW = 0 THEN Max(1, RoundRatio(dstH * img.w, img.h)) ELSE dstW,
          h |-> IF dstH = 0 THEN Max(1, RoundRatio(dstW * img.h, img.w)) ELSE dstH]

\* addWatermark: returns the image it was given
addWatermark(img, text) == img

\* seeded fault: the sizes are applied whatever the kind of the operation
applyOperationAnyKind(img, op) ==
    IF op.width > 0 \/ op.height > 0
    THEN ImagingResize(img, Max(op.width, 0), Max(op.height, 0))
    ELSE img

\* applyOperation: never returns an error
applyOperation(img, op) ==
    LET resized ==
            IF op.type = OpResize /\ (op.width > 0 \/ op.height > 0)
            THEN IF op.width > 0 /\ op.height > 0
                 THEN ImagingResize(img, op.width, op.height)
                 ELSE IF op.width > 0
                      THEN ImagingResize(img, op.width, 0)
                      ELSE ImagingResize(img, 0, op.height)
            ELSE img
    IN  IF op.type = OpWatermark /\ op.watermark # ""
        THEN addWatermark(resized, op.watermark)
        ELSE resized

\* seeded fault: a JPEG quality of zero is passed on as it is
EncodingKeepZero(op) ==
    CASE op.format = FormatJPEG -> [format |-> FormatJPEG, quality |-> op.quality]
      [] op.format = FormatPNG -> [format |-> FormatPNG, quality |-> 0]
      [] op.format = FormatWebP -> [format |-> FormatJPEG, quality |-> 90]
      [] OTHER -> [format |-> FormatJPEG, quality |-> 90]

\* uploadResult's switch: the encoder used and its quality (0: no quality)
Encoding(op) ==
    CASE op.format = FormatJPEG ->
            [format |-> FormatJPEG,
             quality |-> IF op.quality = 0 THEN 90 ELSE op.quality]
      [] op.format = FormatPNG -> [format |-> FormatPNG, quality |-> 0]
      [] op.format = FormatWebP -> [format |-> FormatJPEG, quality |-> 90]
      [] OTHER -> [format |-> FormatJPEG, quality |-> 90]

\* jpeg.Encode and png.Encode reject a raster with a side of 2^16 or more;
\* png.Encode also rejects an empty one
EncodeOK(img, enc) ==
    /\ img.w < 65536 /\ img.h < 65536
    /\ enc.format = FormatPNG => (img.w > 0 /\ img.h > 0)

\* the number of bytes the encoder produced (buf.Len()), at least a header
EncodedSize(img, enc) == 1 + img.w * img.h

\* seeded fault: ".jpeg" is kept
ExtensionAsIs(format) == <<".", format>>

\* ext := "." + op.Format; ".jpeg" becomes ".jpg"
Extension(format) ==
    IF format = FormatJPEG THEN <<".", "jpg">> ELSE <<".", format>>

\* objectKey := op.OutputKey + ext
ObjectKey(op) == op.output_key \o Extension(op.format)

\* ContentType: "image/" + op.Format
ContentType(op) == <<"image/", op.format>>

\* seeded fault: no token in the derived key
DerivedKeyNoToken(jobID, op, token) == <<"processed", jobID, op.type>>

\* seeded fault: no job id in the derived key
DerivedKeyNoJob(jobID, op, token) == <<"processed", op.type, token>>

\* fmt.Sprintf("processed/%s/%s_%s", jobID, op.Type, token)
DerivedKey(jobID, op, token) == <<"processed", jobID, op.type, token>>

\* seeded fault: a key is derived whether or not the operation carries one
WithOutputKeyAlwaysDerived(op, jobID, token) ==
    [op EXCEPT !.output_key = DerivedKey(jobID, op, token)]

\* processOperation's local copy of the operation, with its output key set
WithOutputKey(op, jobID, token) ==
    IF op.output_key = NoKey
    THEN [op EXCEPT !.output_key = DerivedKey(jobID, op, token)]
    ELSE op

\* seeded fault: a format without an encoder is an error
uploadResultRejectUnknown(img, op, putOk) ==
    LET enc == Encoding(op) IN
    IF ~EncodeOK(img, enc) \/ op.format \notin {FormatJPEG, FormatPNG, FormatWebP}
    THEN [err |-> <<"failed to encode image">>, put |-> FALSE]
    ELSE [err |-> IF putOk THEN NoError ELSE <<"failed to upload to storage">>,
          put |-> putOk,
          key |-> ObjectKey(op),
          object |-> [raster |-> img, encoding |-> enc,
                      size |-> EncodedSize(img, enc),
                      content_type |-> ContentType(op)]]

\* uploadResult: the object PutObject is called with, or the encode error
uploadResult(img, op, putOk) ==
    LET enc == Encoding(op) IN
    IF ~EncodeOK(img, enc)
    THEN [err |-> <<"failed to encode image">>, put |-> FALSE]
    ELSE [err |-> IF putOk THEN NoError ELSE <<"failed to upload to storage">>,
          put |-> putOk,
          key |-> ObjectKey(op),
          object |-> [raster |-> img, encoding |-> enc,
                      size |-> EncodedSize(img, enc),
                      content_type |-> ContentType(op)]]

\* the duration time.Since(startTime) reports
Elapsed == [duration |-> "since start"]

\* processOperation: apply, derive the key, upload, describe the result
processOperation(img, op, jobID, token, putOk) ==
    LET processedImg == applyOperation(img, op)
        keyed == WithOutputKey(op, jobID, token)
        up == uploadResult(processedImg, keyed, putOk)
    IN  [err |-> IF up.err = NoError THEN NoError
                 ELSE <<"failed to upload result: ">> \o up.err,
         up |-> up,
         input |-> img,
         output |-> processedImg,
         result |-> [operation |-> keyed,
                     output_url |-> ObjectKey(keyed),
                     output_key |-> keyed.output_key,
                     size |-> 0,
                     width |-> processedImg.w,
                     height |-> processedImg.h,
                     format |-> keyed.format,
                     processing_time |-> Elapsed]]


(***************************************************************************)
(* State.                                                                  *)
(***************************************************************************)
VARIABLES
    nextId,     \* API: number of job ids generated so far
    faults,     \* environment: number of faults so far
    inflight,   \* API: jobs saved by a handler that has not yet published
    store,      \* status store: key job:<id> -> stored document, or NoJob
    expiry,     \* status store: key job:<id> -> time to live set with the value
    queue,      \* the "jobs" queue: messages not yet handed to a consumer
    objects,    \* object store (bucket): object key -> stored object
    pc,         \* worker: position in main: the startup, then the loop
    tries,      \* worker: failed attempts of the connection wait it is in
    job,        \* worker: the loop's local Job
    img,        \* worker: ProcessJob's decoded source raster
    idx,        \* worker: index of the next operation of ProcessJob's loop
    results,    \* worker: ProcessJob's local results slice
    perr,       \* worker: the error ProcessJob returned (NoError for nil)
    replies,    \* status service: the requests answered so far, in order
    \* history variables, read by the properties only
    sent,       \* job id -> the message body published for it, or NoJob
    copies,     \* job id -> number of messages enqueued for it so far
    writer,     \* status key -> who wrote the stored document last
    tag,        \* worker: which message of its job the worker is handling
    wlog,       \* worker: the status writes issued for this delivery
    attempts,   \* worker: the operations attempted for this delivery
    uploads,    \* every successful PutObject: delivery, operation, key
    aborted,    \* deliveries whose worker stopped before a terminal write
    returned,   \* job id -> the envelope the admission handler answered with
    prior,      \* worker: how the process's previous delivery ended
    via,        \* worker: where the source of its delivery was fetched from
    connected   \* worker: the services its startup has connected to

apiVars == <<nextId, inflight>>
envVars == <<faults>>
sharedVars == <<store, expiry, queue, objects>>
workerVars == <<pc, job, img, idx, results, perr>>
statusVars == <<replies>>
historyVars == <<sent, copies, writer, tag, wlog, attempts, uploads, aborted,
                 returned, prior, via>>
startVars == <<tries, connected>>
vars == <<apiVars, envVars, sharedVars, workerVars, statusVars, historyVars,
          startVars>>

\* time.Now() as read by the handler admitting job id, and by a worker
\* completing a delivery
AdmissionTime(id) == [at |-> <<"admitted", id>>]
CompletionTime(id, t) == [at |-> <<"completed", id, t>>]

\* the bucket holds one uploaded source image before any job runs
InitObjects ==
    [k \in {StoredSource} |->
        [raster |-> SourceRaster,
         encoding |-> [format |-> FormatPNG, quality |-> 0],
         size |-> EncodedSize(SourceRaster, [format |-> FormatPNG, quality |-> 0]),
         content_type |-> <<"image/", FormatPNG>>]]

\* the number of repeated deliveries so far
Redelivered ==
    Cardinality({c \in JobIds \X (2..MaxEvents) : c[2] <= copies[c[1]]})

\* the number of events of the environment so far
Events == nextId + Len(replies) + Redelivered + faults

\* the environment lets a call succeed, or fail while the run has events left
Outcome(ok) ==
    /\ ok \/ Events < MaxEvents
    /\ faults' = IF ok THEN faults ELSE faults + 1

Init ==
    /\ nextId = 0
    /\ faults = 0
    /\ inflight = {}
    /\ store = [k \in JobIds |-> NoJob]
    /\ expiry = [k \in JobIds |-> NoExpiry]
    /\ queue = <<>>
    /\ objects = InitObjects
    /\ pc = [w \in Workers |-> "idle"]
    /\ job = [w \in Workers |-> NoJob]
    /\ img = [w \in Workers |-> NoImage]
    /\ idx = [w \in Workers |-> 0]
    /\ results = [w \in Workers |-> <<>>]
    /\ perr = [w \in Workers |-> NoError]
    /\ replies = <<>>
    /\ sent = [k \in JobIds |-> NoJob]
    /\ copies = [k \in JobIds |-> 0]
    /\ writer = [k \in JobIds |-> [by |-> "none"]]
    /\ tag = [w \in Workers |-> 0]
    /\ wlog = [w \in Workers |-> <<>>]
    /\ attempts = [w \in Workers |-> <<>>]
    /\ uploads = {}
    /\ aborted = {}
    /\ returned = [k \in JobIds |-> NoJob]
    /\ prior = [w \in Workers |-> "none"]
    /\ via = [w \in Workers |-> "none"]
    /\ tries = [w \in Workers |-> 0]
    /\ connected = [w \in Workers |-> Services]

(***************************************************************************)
(* Status store.                                                           *)
(***************************************************************************)
\* seeded fault: one key for every job
StatusKeyShared(id) == 1

\* the key of a job's record: "job:" + id
StatusKey(id) == id

\* seeded fault: the document is written under every key
RedisSetAll(st, j, ok) ==
    IF ok THEN [k \in DOMAIN st |-> Marshal(j)] ELSE st

\* seeded fault: a Set that reports an error has written all the same
RedisSetIgnoreFailure(st, j, ok) == [st EXCEPT ![StatusKey(j.id)] = Marshal(j)]

\* rdb.Set(ctx, key, data, 24h): the whole document replaces the value; a
\* failed Set leaves the store as it was
RedisSet(st, j, ok) ==
    IF ok THEN [st EXCEPT ![StatusKey(j.id)] = Marshal(j)] ELSE st

\* seeded fault: the value is set without an expiration
RedisExpiryKeep(ex, j, ok) == ex

\* rdb.Set(ctx, key, data, 24h): the key's time to live after the call
RedisExpiry(ex, j, ok) ==
    IF ok THEN [ex EXCEPT ![StatusKey(j.id)] = JobTTLHours] ELSE ex

\* seeded fault: a job that is still pending is reported as absent
getJobHidePending(id) ==
    IF store[StatusKey(id)] = NoJob THEN NoJob
    ELSE IF store[StatusKey(id)].status = StatusPending THEN NoJob
    ELSE Unmarshal(store[StatusKey(id)])

\* status service, getJob: the stored job, or NoJob for redis.Nil
getJob(id) ==
    IF store[StatusKey(id)] = NoJob THEN NoJob
    ELSE Unmarshal(store[StatusKey(id)])

(***************************************************************************)
(* Admission API: handleCreateJob.                                         *)
(***************************************************************************)
\* seeded fault: an empty source reference is accepted
ValidateRequestAnySource(req) ==
    CASE req.method # "POST" -> 405
      [] ~req.decodes -> 400
      [] OTHER -> 200

\* the HTTP status the request is answered with before anything is written
ValidateRequest(req) ==
    CASE req.method # "POST" -> 405
      [] ~req.decodes -> 400
      [] req.image_url = NoURL -> 400
      [] OTHER -> 200

\* seeded fault: no default, the operations stay empty
DefaultOperationsNone == <<>>

\* the default operation: resize to 800x600, JPEG, quality 90
DefaultOperations ==
    <<ImageOperation(OpResize, 800, 600, FormatJPEG, 90, "", NoKey)>>

CreateJob(req, id) ==
    Job(id, StatusPending, req.image_url,
        IF Len(req.operations) = 0 THEN DefaultOperations ELSE req.operations,
        AdmissionTime(id))

\* seeded fault: the handler goes on to publish after a failed save
AfterSaveIgnoreError(pending, j, ok) == pending \cup {j}

\* lines 124-127: the handler goes on to publish only if saveJob succeeded
AfterSave(pending, j, ok) == IF ok THEN pending \cup {j} ELSE pending

\* lines 75-127: validate, default, create the job, saveJob; a failed save
\* answers 500 and publishes nothing
ApiSave(req, ok) ==
    /\ Events < MaxEvents
    /\ ValidateRequest(req) = 200
    /\ Outcome(ok)
    /\ LET j == CreateJob(req, nextId + 1) IN
        /\ nextId' = nextId + 1
        /\ store' = RedisSet(store, j, ok)
        /\ expiry' = RedisExpiry(expiry, j, ok)
        /\ writer' = IF ok THEN [writer EXCEPT ![StatusKey(j.id)] = [by |-> "api"]]
                      ELSE writer
        /\ inflight' = AfterSave(inflight, j, ok)
    /\ UNCHANGED <<queue, objects, workerVars, statusVars, sent, copies, tag,
                   wlog, attempts, uploads, aborted, returned, prior, via, startVars>>

\* lines 129-151: publish the marshalled job and answer with the job; a
\* failed publish answers 500
ApiPublish(j, ok) ==
    /\ j \in inflight
    /\ Outcome(ok)
    /\ inflight' = inflight \ {j}
    /\ IF ok
       THEN /\ queue' = Append(queue, [body |-> Marshal(j), copy |-> 1])
            /\ sent' = [sent EXCEPT ![j.id] = Marshal(j)]
            /\ copies' = [copies EXCEPT ![j.id] = 1]
            /\ returned' = [returned EXCEPT ![j.id] = Marshal(j)]
       ELSE UNCHANGED <<queue, sent, copies, returned>>
    /\ UNCHANGED <<nextId, store, expiry, objects, workerVars, statusVars,
                   writer, tag, wlog, attempts, uploads, aborted, prior, via,
                   startVars>>

(***************************************************************************)
(* The broker.                                                             *)
(***************************************************************************)
\* a message of job id is delivered once more: the queue holds another copy
\* of the body that was published
Redeliver(id) ==
    /\ sent[id] # NoJob
    /\ Events < MaxEvents
    /\ queue' = Append(queue, [body |-> sent[id], copy |-> copies[id] + 1])
    /\ copies' = [copies EXCEPT ![id] = copies[id] + 1]
    /\ UNCHANGED <<apiVars, envVars, store, expiry, objects, workerVars,
                   statusVars, sent, writer, tag, wlog, attempts, uploads,
                   aborted, returned, prior, via, startVars>>

\* a payload that is no Job document is on the queue: any client of the
\* broker can publish to "jobs"
Corrupt ==
    /\ Events < MaxEvents
    /\ faults' = faults + 1
    /\ queue' = Append(queue, [body |-> MalformedBody, copy |-> 0])
    /\ UNCHANGED <<apiVars, store, expiry, objects, workerVars, statusVars,
                   historyVars, startVars>>


(***************************************************************************)
(* pkg/processor: source acquisition.                                      *)
(***************************************************************************)
HasPrefix(url, prefix) == Len(url) > 0 /\ url[1] = prefix

\* what the network and the source server do to one fetch; "no_response" is a
\* server that accepts the request and never answers it
FetchOutcomes == {"ok", "unreachable", "bad_status", "undecodable", "no_response"}

\* Whether http.DefaultClient.Do returns.  The request carries the package's
\* ctx, context.Background(), which has no deadline and is never cancelled,
\* and http.DefaultClient has no Timeout: the call returns when the server
\* answers or the transport fails, and not otherwise.
DoReturns(outcome) == outcome # "no_response"

\* downloadFromHTTP, when the call returns
downloadFromHTTP(url, outcome) ==
    CASE outcome = "unreachable" ->
            [err |-> <<"failed to download image: ", "transport error">>,
             img |-> NoImage, via |-> "http"]
      [] outcome = "bad_status" ->
            [err |-> <<"HTTP error: ", "404">>, img |-> NoImage, via |-> "http"]
      [] outcome = "undecodable" ->
            [err |-> <<"failed to decode image: ", "unknown format">>,
             img |-> NoImage, via |-> "http"]
      [] OTHER -> [err |-> NoError, img |-> SourceRaster, via |-> "http"]

\* downloadFromStorage: GetObject is lazy, so a missing key and a failed read
\* both surface as a decode error
downloadFromStorage(objectKey, objs, outcome) ==
    IF objectKey \in DOMAIN objs /\ outcome = "ok"
    THEN [err |-> NoError, img |-> objs[objectKey].raster, via |-> "storage"]
    ELSE [err |-> <<"failed to decode image: ", "read error">>, img |-> NoImage,
          via |-> "storage"]

\* seeded fault: only the plain scheme is looked for
UsesHTTPPlainOnly(url) == HasPrefix(url, "http://")

\* line 71: the reference begins with a network scheme
UsesHTTP(url) == HasPrefix(url, "http://") \/ HasPrefix(url, "https://")

\* downloadImage: the reference alone decides which path is taken
downloadImage(url, objs, outcome) ==
    IF UsesHTTP(url)
    THEN downloadFromHTTP(url, outcome)
    ELSE downloadFromStorage(url, objs, outcome)

(***************************************************************************)
(* pkg/processor: ProcessJob's loop and epilogue.                          *)
(***************************************************************************)
\* seeded fault: each operation is handed the output of the one before
LoopInputCumulative(source, previousOutput) == previousOutput

\* the raster ProcessJob hands to processOperation: always the source
LoopInput(source, previousOutput) == source

\* seeded fault: the result is appended whatever the error
AppendResultAlways(rs, r) == Append(rs, r.result)

\* seeded fault: the result is appended before the error is looked at, and again
AppendResultTwice(rs, r) ==
    IF r.err = NoError THEN Append(Append(rs, r.result), r.result)
    ELSE Append(rs, r.result)

\* `if err != nil { continue }; results = append(results, result)`
AppendResult(rs, r) ==
    IF r.err = NoError THEN Append(rs, r.result) ELSE rs

\* seeded fault: `break` in place of `continue`
NextIndexBreak(i, n, err) == IF err # NoError THEN n + 1 ELSE i + 1

\* the index of the operation the loop turns to after operation i of n
NextIndex(i, n, err) == i + 1

\* seeded fault: the job's operations are replaced by the keyed copies
FinishJobWithKeys(j, rs, now) ==
    [j EXCEPT !.results = rs, !.status = StatusCompleted, !.completed_at = now,
              !.operations = [i \in 1..Len(rs) |-> rs[i].operation]]

\* seeded fault: the completion time is not set
FinishJobNoTime(j, rs, now) ==
    [j EXCEPT !.results = rs, !.status = StatusCompleted]

\* seeded fault: the status is left as it was
FinishJobNoStatus(j, rs, now) ==
    [j EXCEPT !.results = rs, !.completed_at = now]

\* lines 57-61: results, status and completion time set on the job
FinishJob(j, rs, now) ==
    [j EXCEPT !.results = rs, !.status = StatusCompleted, !.completed_at = now]

\* uuid.New().String()[:8]: a token is a number here.  Tokens matter only by
\* being equal or not to the tokens of the keys already derived for the same
\* job and kind, so a draw yields one of those or the least token that is none
\* of them.  No token is drawn for an operation that carries a key.
NoToken == 0
UsedTokens(jobID, op, ups) ==
    {u.token : u \in {v \in ups : v.id = jobID /\ v.kind = op.type /\ v.derived}}
FreshToken(used) == CHOOSE t \in 1..(Cardinality(used) + 1) : t \notin used
TokensFor(jobID, op, ups) ==
    IF op.output_key # NoKey THEN {NoToken}
    ELSE LET used == UsedTokens(jobID, op, ups) IN used \cup {FreshToken(used)}

(***************************************************************************)
(* Worker: the consumption loop of main.                                   *)
(***************************************************************************)
Delivery(w) == [id |-> job[w].id, copy |-> tag[w]]

\* saveJob as the worker calls it: the write is issued, and logged if it fails
WorkerSave(w, j, ok) ==
    /\ store' = RedisSet(store, j, ok)
    /\ expiry' = RedisExpiry(expiry, j, ok)
    /\ writer' = IF ok
                  THEN [writer EXCEPT ![StatusKey(j.id)] =
                            [by |-> "worker", id |-> j.id, copy |-> tag[w]]]
                  ELSE writer
    /\ wlog' = [wlog EXCEPT ![w] = Append(@, [doc |-> Marshal(j), ok |-> ok])]

\* seeded fault: the error is not attached
MarkFailedNoError(j, e) == [j EXCEPT !.status = StatusFailed]

\* lines 116-117: job.Status = failed; job.Error = err.Error()
MarkFailed(j, e) == [j EXCEPT !.status = StatusFailed, !.error = e]

\* seeded fault: no `continue`: the failure branch falls through to line 123
AfterFailedSaveFallThrough == "save"

\* where the loop goes after the failure branch saved the job: `continue`
AfterFailedSave == "done"

\* seeded fault: a message is taken while another is being handled
CanReceiveAnytime(w) == pc[w] \in {"idle", "download"}

\* `for msg := range msgs`: the loop takes a message at the top of its body only
CanReceive(w) == pc[w] = "idle"

\* seeded fault: processing starts before the status is written
AfterReceiveSkipMark == "download"

\* where the loop goes with a decoded job: lines 109-111
AfterReceive == "mark"

\* seeded fault: the payload is put back at the end of the queue
AfterMalformedRequeue(q) == Append(Tail(q), Head(q))

\* the queue after a payload that does not decode was taken: the message was
\* acknowledged on delivery, and `continue` does nothing with it
AfterMalformed(q) == Tail(q)

\* lines 100-107: take the next message and decode it; a payload that does
\* not decode is logged and dropped
Receive(w) ==
    /\ CanReceive(w)
    /\ queue # <<>>
    /\ LET msg == Head(queue) IN
        IF WellFormed(msg.body)
        THEN /\ queue' = Tail(queue)
             /\ job' = [job EXCEPT ![w] = Unmarshal(msg.body)]
             /\ tag' = [tag EXCEPT ![w] = msg.copy]
             /\ pc' = [pc EXCEPT ![w] = AfterReceive]
        ELSE /\ queue' = AfterMalformed(queue)
             /\ UNCHANGED <<job, tag, pc>>
    /\ UNCHANGED <<apiVars, envVars, store, expiry, objects, img, idx, results,
                   perr, statusVars, sent, copies, writer, wlog, attempts,
                   uploads, aborted, returned, prior, via, startVars>>

\* lines 109-111: job.Status = in_progress; saveJob(job)
MarkInProgress(w, ok) ==
    /\ pc[w] = "mark"
    /\ Outcome(ok)
    /\ LET j == [job[w] EXCEPT !.status = StatusInProgress] IN
        /\ job' = [job EXCEPT ![w] = j]
        /\ WorkerSave(w, j, ok)
    /\ pc' = [pc EXCEPT ![w] = "download"]
    /\ UNCHANGED <<apiVars, queue, objects, img, idx, results, perr,
                   statusVars, sent, copies, tag, attempts, uploads, aborted,
                   returned, prior, via, startVars>>

\* ProcessJob lines 38-47: download the source; on failure ProcessJob
\* returns the error, otherwise the loop over the operations starts.  A fetch
\* over HTTP that gets no answer does not return: the worker stays in the call.
Download(w, outcome) ==
    /\ pc[w] = "download"
    /\ Outcome(outcome = "ok")
    /\ ~DoReturns(outcome) => UsesHTTP(job[w].image_url)
    /\ LET d == downloadImage(job[w].image_url, objects, outcome) IN
        /\ via' = [via EXCEPT ![w] = d.via]
        /\ CASE ~DoReturns(outcome) ->
                  /\ pc' = [pc EXCEPT ![w] = "blocked"]
                  /\ UNCHANGED <<job, img, idx, results, perr>>
             [] DoReturns(outcome) /\ d.err # NoError ->
                  /\ perr' = [perr EXCEPT ![w] =
                                 <<"failed to download image: ">> \o d.err]
                  /\ pc' = [pc EXCEPT ![w] = "failed"]
                  /\ UNCHANGED <<job, img, idx, results>>
             [] OTHER ->
                  /\ img' = [img EXCEPT ![w] = d.img]
                  /\ idx' = [idx EXCEPT ![w] = 1]
                  /\ results' = [results EXCEPT ![w] = <<>>]
                  /\ IF Len(job[w].operations) = 0
                     THEN /\ job' = [job EXCEPT ![w] =
                                        FinishJob(@, <<>>,
                                                  CompletionTime(@.id, tag[w]))]
                          /\ pc' = [pc EXCEPT ![w] = "save"]
                     ELSE /\ pc' = [pc EXCEPT ![w] = "ops"]
                          /\ UNCHANGED job
                  /\ UNCHANGED perr
    /\ UNCHANGED <<apiVars, sharedVars, statusVars, sent, copies, writer, tag,
                   wlog, attempts, uploads, aborted, returned, prior, startVars>>

\* ProcessJob lines 48-61: one iteration of the loop (processOperation with
\* its upload), and after the last one the epilogue
ProcessOp(w, token, putOk) ==
    /\ pc[w] = "ops"
    /\ Outcome(putOk)
    /\ LET j == job[w]
           i == idx[w]
           op == j.operations[i]
           prev == IF attempts[w] = <<>> THEN img[w]
                   ELSE attempts[w][Len(attempts[w])].output
           r == processOperation(LoopInput(img[w], prev), op, j.id, token, putOk)
           rs == AppendResult(results[w], r)
           next == NextIndex(i, Len(j.operations), r.err)
       IN
        /\ token \in TokensFor(j.id, op, uploads)
        /\ objects' = IF r.up.put
                       THEN [k \in DOMAIN objects \cup {r.up.key} |->
                                IF k = r.up.key THEN r.up.object ELSE objects[k]]
                       ELSE objects
        /\ uploads' = IF r.up.put
                       THEN uploads \cup {[id |-> j.id, copy |-> tag[w],
                                            index |-> i, key |-> r.up.key,
                                            kind |-> op.type,
                                            derived |-> op.output_key = NoKey,
                                            token |-> token]}
                       ELSE uploads
        /\ attempts' = [attempts EXCEPT ![w] =
                            Append(@, [index |-> i, op |-> op,
                                       input |-> r.input, output |-> r.output,
                                       ok |-> r.err = NoError])]
        /\ results' = [results EXCEPT ![w] = rs]
        /\ idx' = [idx EXCEPT ![w] = next]
        /\ IF next > Len(j.operations)
           THEN /\ job' = [job EXCEPT ![w] =
                              FinishJob(j, rs, CompletionTime(j.id, tag[w]))]
                /\ pc' = [pc EXCEPT ![w] = "save"]
           ELSE UNCHANGED <<job, pc>>
    /\ UNCHANGED <<apiVars, store, expiry, queue, img, perr, statusVars, sent,
                   copies, writer, tag, wlog, aborted, returned, prior, via, startVars>>

\* lines 114-120: ProcessJob failed: mark the job failed, attach the error,
\* saveJob, continue
SaveFailed(w, ok) ==
    /\ pc[w] = "failed"
    /\ Outcome(ok)
    /\ LET j == MarkFailed(job[w], perr[w]) IN
        /\ job' = [job EXCEPT ![w] = j]
        /\ WorkerSave(w, j, ok)
    /\ pc' = [pc EXCEPT ![w] = AfterFailedSave]
    /\ UNCHANGED <<apiVars, queue, objects, img, idx, results, perr,
                   statusVars, sent, copies, tag, attempts, uploads, aborted,
                   returned, prior, via, startVars>>

\* line 123: save the final job state
SaveFinal(w, ok) ==
    /\ pc[w] = "save"
    /\ Outcome(ok)
    /\ WorkerSave(w, job[w], ok)
    /\ pc' = [pc EXCEPT ![w] = "done"]
    /\ UNCHANGED <<apiVars, queue, objects, job, img, idx, results, perr,
                   statusVars, sent, copies, tag, attempts, uploads, aborted,
                   returned, prior, via, startVars>>

\* the for loop turns to the next message: the iteration's locals are gone
Idle(w) ==
    /\ pc' = [pc EXCEPT ![w] = "idle"]
    /\ job' = [job EXCEPT ![w] = NoJob]
    /\ img' = [img EXCEPT ![w] = NoImage]
    /\ idx' = [idx EXCEPT ![w] = 0]
    /\ results' = [results EXCEPT ![w] = <<>>]
    /\ perr' = [perr EXCEPT ![w] = NoError]
    /\ tag' = [tag EXCEPT ![w] = 0]
    /\ wlog' = [wlog EXCEPT ![w] = <<>>]
    /\ attempts' = [attempts EXCEPT ![w] = <<>>]
    /\ via' = [via EXCEPT ![w] = "none"]

\* how the delivery the worker is at the end of went
HandledAs(w) ==
    IF job[w].status = StatusFailed THEN "failed"
    ELSE IF \E k \in 1..Len(attempts[w]) : ~attempts[w][k].ok THEN "partial"
    ELSE "completed"

\* seeded fault: the loop ends after a job that failed
LoopBackUnlessFailed(w) ==
    /\ pc[w] = "done"
    /\ job[w].status # StatusFailed
    /\ prior' = [prior EXCEPT ![w] = HandledAs(w)]
    /\ Idle(w)
    /\ UNCHANGED <<apiVars, envVars, sharedVars, statusVars, sent, copies,
                   writer, uploads, aborted, returned, startVars>>

\* lines 119 and 124-125: the iteration ends, by `continue` or at the end of
\* the body, and the loop turns to the next message
LoopBack(w) ==
    /\ pc[w] = "done"
    /\ prior' = [prior EXCEPT ![w] = HandledAs(w)]
    /\ Idle(w)
    /\ UNCHANGED <<apiVars, envVars, sharedVars, statusVars, sent, copies,
                   writer, uploads, aborted, returned, startVars>>

\* whether a terminal status write was issued for the worker's delivery
TerminalIssued(w) ==
    \E k \in 1..Len(wlog[w]) : wlog[w][k].doc.status \in Terminal

\* The worker process stops while handling a message and is started again.
\* The message was acknowledged when it was delivered (Consume with autoAck,
\* lines 85-93), so the broker does not hold it any more.
Crash(w) ==
    /\ pc[w] \notin {"idle", "done"}
    /\ Outcome(FALSE)
    /\ aborted' = IF TerminalIssued(w) THEN aborted
                   ELSE aborted \cup {Delivery(w)}
    /\ prior' = [prior EXCEPT ![w] = "none"]
    /\ Idle(w)
    /\ UNCHANGED <<apiVars, sharedVars, statusVars, sent, copies, writer,
                   uploads, returned, startVars>>

\* a step of the worker's own code, whatever its calls return
WorkerStep(w) ==
    \/ Receive(w)
    \/ \E ok \in BOOLEAN : MarkInProgress(w, ok)
    \/ \E outcome \in FetchOutcomes : Download(w, outcome)
    \/ \E token \in 0..MaxEvents, putOk \in BOOLEAN : ProcessOp(w, token, putOk)
    \/ \E ok \in BOOLEAN : SaveFailed(w, ok)
    \/ \E ok \in BOOLEAN : SaveFinal(w, ok)
    \/ LoopBack(w)

(***************************************************************************)
(* Worker: the startup of main, lines 27-98.  The positions are the three  *)
(* connection waits and the calls between them, in the order of the code;  *)
(* every failure ends the process (log.Fatal).                             *)
(***************************************************************************)
\* the service a connection wait is for
WaitsFor(p) ==
    CASE p = "wait_redis" -> "redis"
      [] p = "wait_rabbitmq" -> "rabbitmq"
      [] p = "wait_minio" -> "minio"

Waits == {"wait_redis", "wait_rabbitmq", "wait_minio"}
Setups == {"channel", "client", "declare", "consume"}

\* where main goes when a wait has returned nil
AfterWait(p) ==
    CASE p = "wait_redis" -> "wait_rabbitmq"
      [] p = "wait_rabbitmq" -> "channel"
      [] p = "wait_minio" -> "client"

\* seeded fault: the consumer is registered without the wait for the object store
AfterSetupSkipWait(p) ==
    CASE p = "channel" -> "declare"
      [] p = "client" -> "declare"
      [] p = "declare" -> "consume"
      [] p = "consume" -> "idle"

\* where main goes when a call between the waits has succeeded: Channel(),
\* NewMinIOClient(), QueueDeclare, Consume
AfterSetup(p) ==
    CASE p = "channel" -> "wait_minio"
      [] p = "client" -> "declare"
      [] p = "declare" -> "consume"
      [] p = "consume" -> "idle"

\* `for i := 0; i < maxRetries; i++`: the loop ends after n failed attempts
Exhausted(n) == n >= maxRetries

\* one attempt of waitForRedis, waitForRabbitMQ or WaitForMinIO: the wait
\* returns nil at the first attempt that succeeds, and an error, which ends
\* the process, when the last attempt has failed
Connect(w, ok) ==
    /\ pc[w] \in Waits
    /\ IF ok
       THEN /\ pc' = [pc EXCEPT ![w] = AfterWait(pc[w])]
            /\ tries' = [tries EXCEPT ![w] = 0]
            /\ connected' = [connected EXCEPT ![w] = @ \cup {WaitsFor(pc[w])}]
       ELSE /\ tries' = [tries EXCEPT ![w] = @ + 1]
            /\ pc' = [pc EXCEPT ![w] =
                         IF Exhausted(tries[w] + 1) THEN "exited" ELSE pc[w]]
            /\ UNCHANGED connected
    /\ UNCHANGED <<apiVars, envVars, sharedVars, job, img, idx, results, perr,
                   statusVars, historyVars>>

\* one of the calls between the waits: a failure ends the process
Setup(w, ok) ==
    /\ pc[w] \in Setups
    /\ pc' = [pc EXCEPT ![w] = IF ok THEN AfterSetup(pc[w]) ELSE "exited"]
    /\ UNCHANGED <<apiVars, envVars, sharedVars, job, img, idx, results, perr,
                   statusVars, historyVars, startVars>>

(***************************************************************************)
(* Status service: handleGetJob.                                           *)
(***************************************************************************)
\* a request: its method and strings.Split(r.URL.Path, "/")
StatusRequest(method, path) == [method |-> method, path |-> path]

StatusRequests ==
    {StatusRequest("GET", <<"", "jobs", id>>) : id \in JobIds}
        \cup {StatusRequest("POST", <<"", "jobs", 1>>),
              StatusRequest("GET", <<"", "jobs", 1, "results">>)}

\* the request gets as far as the status store
ReachesStore(req) == req.method = "GET" /\ Len(req.path) = 3

\* handleGetJob: the answer to a request; ok is whether rdb.Get worked
handleGetJob(req, ok) ==
    CASE req.method # "GET" -> [code |-> 405, body |-> <<"only GET allowed">>]
      [] Len(req.path) # 3 -> [code |-> 400, body |-> <<"invalid job ID">>]
      [] ~ok -> [code |-> 500, body |-> <<"failed to get job">>]
      [] getJob(req.path[3]) = NoJob ->
            [code |-> 404, body |-> <<"job not found">>]
      [] OTHER -> [code |-> 200, body |-> Marshal(getJob(req.path[3]))]

\* the status service answers one request
HandleGetJob(req, ok) ==
    /\ Events < MaxEvents
    /\ ok \/ ReachesStore(req)
    /\ Outcome(ok)
    /\ replies' = Append(replies, [req |-> req, reply |-> handleGetJob(req, ok)])
    /\ UNCHANGED <<apiVars, sharedVars, workerVars, historyVars, startVars>>

(***************************************************************************)
(* Specification.                                                          *)
(***************************************************************************)
Next ==
    \/ \E req \in Requests, ok \in BOOLEAN : ApiSave(req, ok)
    \/ \E j \in inflight, ok \in BOOLEAN : ApiPublish(j, ok)
    \/ \E id \in JobIds : Redeliver(id)
    \/ Corrupt
    \/ \E req \in StatusRequests, ok \in BOOLEAN : HandleGetJob(req, ok)
    \/ \E w \in Workers : Receive(w)
    \/ \E w \in Workers, ok \in BOOLEAN : MarkInProgress(w, ok)
    \/ \E w \in Workers, outcome \in FetchOutcomes : Download(w, outcome)
    \/ \E w \in Workers, token \in 0..MaxEvents, putOk \in BOOLEAN :
            ProcessOp(w, token, putOk)
    \/ \E w \in Workers, ok \in BOOLEAN : SaveFailed(w, ok)
    \/ \E w \in Workers, ok \in BOOLEAN : SaveFinal(w, ok)
    \/ \E w \in Workers : LoopBack(w)
    \/ \E w \in Workers : Crash(w)

Spec == Init /\ [][Next]_vars

(***************************************************************************)
(* The reliable environment: no call fails, no worker stops, no message is *)
(* delivered twice.  Every handler and every loop that has started goes    *)
(* on: the steps of the API handlers and of each worker are weakly fair.   *)
(***************************************************************************)
ApiStepOK ==
    \/ \E req \in Requests : ApiSave(req, TRUE)
    \/ \E j \in inflight : ApiPublish(j, TRUE)

WorkerStepOK(w) ==
    \/ Receive(w)
    \/ MarkInProgress(w, TRUE)
    \/ Download(w, "ok")
    \/ \E token \in 0..MaxEvents : ProcessOp(w, token, TRUE)
    \/ SaveFailed(w, TRUE)
    \/ SaveFinal(w, TRUE)
    \/ LoopBack(w)

NextOK == ApiStepOK \/ \E w \in Workers : WorkerStepOK(w)

LiveSpec ==
    /\ Init
    /\ [][NextOK]_vars
    /\ WF_vars(\E j \in inflight : ApiPublish(j, TRUE))
    /\ \A w \in Workers : WF_vars(WorkerStepOK(w))

(***************************************************************************)
(* The startup of the workers.  A job was admitted before the workers are  *)
(* up, so its message waits in the queue while they connect.               *)
(***************************************************************************)
StartInit ==
    /\ nextId = 0
    /\ faults = 0
    /\ inflight = {}
    /\ store = [k \in JobIds |-> NoJob]
    /\ expiry = [k \in JobIds |-> NoExpiry]
    /\ queue = <<>>
    /\ objects = InitObjects
    /\ pc = [w \in Workers |-> "wait_redis"]
    /\ job = [w \in Workers |-> NoJob]
    /\ img = [w \in Workers |-> NoImage]
    /\ idx = [w \in Workers |-> 0]
    /\ results = [w \in Workers |-> <<>>]
    /\ perr = [w \in Workers |-> NoError]
    /\ replies = <<>>
    /\ sent = [k \in JobIds |-> NoJob]
    /\ copies = [k \in JobIds |-> 0]
    /\ writer = [k \in JobIds |-> [by |-> "none"]]
    /\ tag = [w \in Workers |-> 0]
    /\ wlog = [w \in Workers |-> <<>>]
    /\ attempts = [w \in Workers |-> <<>>]
    /\ uploads = {}
    /\ aborted = {}
    /\ returned = [k \in JobIds |-> NoJob]
    /\ prior = [w \in Workers |-> "none"]
    /\ via = [w \in Workers |-> "none"]
    /\ tries = [w \in Workers |-> 0]
    /\ connected = [w \in Workers |-> {}]

StartNext ==
    \/ nextId = 0 /\ ApiSave(Request("POST", TRUE, HttpSource, <<>>), TRUE)
    \/ \E j \in inflight : ApiPublish(j, TRUE)
    \/ \E w \in Workers, ok \in BOOLEAN : Connect(w, ok)
    \/ \E w \in Workers, ok \in BOOLEAN : Setup(w, ok)
    \/ \E w \in Workers : Receive(w)

StartSpec == StartInit /\ [][StartNext]_vars

(***************************************************************************)
(* One operation at a time: a job with a single operation, drawn from the  *)
(* kinds, sizes, formats, qualities and keys below, is admitted and        *)
(* handled with no failure.  The admission API accepts every operation.    *)
(***************************************************************************)
OpKinds == {OpResize, OpFormat, OpWatermark}
OpWidths == {0, 3}
OpHeights == {0, 5}
OpFormats == {FormatJPEG, FormatPNG, FormatWebP, "gif", ""}
OpQualities == {0, 1, 50, 100}
OpWatermarks == {"", "draft"}
OpKeys == {NoKey, <<"test-thumbnail">>}

OpInputs ==
    {ImageOperation(t, w, h, f, q, wm, k) :
        t \in OpKinds, w \in OpWidths, h \in OpHeights, f \in OpFormats,
        q \in OpQualities, wm \in OpWatermarks, k \in OpKeys}

OpRequests ==
    {Request("POST", TRUE, url, <<op>>) :
        url \in {HttpSource, StoredSource}, op \in OpInputs}

OpNext ==
    \/ nextId = 0 /\ \E req \in OpRequests : ApiSave(req, TRUE)
    \/ \E j \in inflight : ApiPublish(j, TRUE)
    \/ \E w \in Workers : Receive(w)
    \/ \E w \in Workers : MarkInProgress(w, TRUE)
    \/ \E w \in Workers : Download(w, "ok")
    \/ \E w \in Workers, token \in 0..MaxEvents : ProcessOp(w, token, TRUE)
    \/ \E w \in Workers : SaveFinal(w, TRUE)
    \/ \E w \in Workers : LoopBack(w)

OpSpec == Init /\ [][OpNext]_vars

(***************************************************************************)
(* Messages of any status.  The worker decodes whatever Job document the   *)
(* queue hands it, and any client of the broker can publish to "jobs": a   *)
(* message may carry the record of a job as it is stored now, in progress, *)
(* completed or failed.                                                    *)
(***************************************************************************)
\* the stored record of a published job is put on the queue as a message
Republish(id) ==
    /\ sent[id] # NoJob
    /\ store[StatusKey(id)] # NoJob
    /\ Events < MaxEvents
    /\ queue' = Append(queue, [body |-> store[StatusKey(id)],
                               copy |-> copies[id] + 1])
    /\ copies' = [copies EXCEPT ![id] = copies[id] + 1]
    /\ UNCHANGED <<apiVars, envVars, store, expiry, objects, workerVars,
                   statusVars, sent, writer, tag, wlog, attempts, uploads,
                   aborted, returned, prior, via, startVars>>

ReplayNext ==
    \/ \E req \in Requests, ok \in BOOLEAN : ApiSave(req, ok)
    \/ \E j \in inflight, ok \in BOOLEAN : ApiPublish(j, ok)
    \/ \E id \in JobIds : Redeliver(id)
    \/ Corrupt
    \/ \E req \in StatusRequests, ok \in BOOLEAN : HandleGetJob(req, ok)
    \/ \E w \in Workers : Receive(w)
    \/ \E w \in Workers, ok \in BOOLEAN : MarkInProgress(w, ok)
    \/ \E w \in Workers, outcome \in FetchOutcomes : Download(w, outcome)
    \/ \E w \in Workers, token \in 0..MaxEvents, putOk \in BOOLEAN :
            ProcessOp(w, token, putOk)
    \/ \E w \in Workers, ok \in BOOLEAN : SaveFailed(w, ok)
    \/ \E w \in Workers, ok \in BOOLEAN : SaveFinal(w, ok)
    \/ \E w \in Workers : LoopBack(w)
    \/ \E w \in Workers : Crash(w)
    \/ \E id \in JobIds : Republish(id)

ReplaySpec == Init /\ [][ReplayNext]_vars

(***************************************************************************)
(* Properties.                                                             *)
(***************************************************************************)
Stored(k) == store[k] # NoJob
StoredTerminal(k) == Stored(k) /\ store[k].status \in Terminal
\* the statuses of the writes a worker issued for its delivery, in order
IssuedStatuses(w) == [k \in 1..Len(wlog[w]) |-> wlog[w][k].doc.status]
Acquired(w) == img[w] # NoImage
AcquisitionFailed(w) == perr[w] # NoError
IsOk(a) == a.ok
\* the operation a Result refers to, as the job lists it
ListedOperation(r, op) == [r.operation EXCEPT !.output_key = op.output_key] = op

\* C1 (as claimed): once the stored record of a job holds status Completed or
\* Failed, no later write changes its status, whatever the deliveries.
C1_TerminalNeverChanges ==
    [][\A k \in JobIds :
          StoredTerminal(k) =>
              (Stored(k)' /\ store'[k].status = store[k].status)]_vars

\* C1 (amended): a stored terminal status changes only by a write of a worker
\* handling another delivery of the same job's message; the delivery that
\* wrote it, the API and the workers handling other jobs never change it.
C1_TerminalChangedOnlyByAnotherDelivery ==
    [][\A k \in JobIds :
          (StoredTerminal(k) /\ store'[k] # store[k]) =>
              /\ writer'[k].by = "worker"
              /\ writer'[k].id = store[k].id
              /\ writer'[k] # writer[k]
              /\ writer[k].by = "worker"
              /\ Stored(k)' /\ store'[k].id = store[k].id]_vars

\* a worker is about to write InProgress over the terminal record that
\* another delivery of the same job wrote
C1_Witness ==
    \E w \in Workers :
        /\ pc[w] = "mark"
        /\ StoredTerminal(job[w].id)
        /\ writer[job[w].id].by = "worker"
        /\ writer[job[w].id].copy # tag[w]

\* C2: for each delivery of a well-formed job message the worker issues
\* exactly two status writes for that job, InProgress and then one terminal
\* status, and nothing after it: at every position of the loop the writes
\* issued so far are the matching prefix of that pair.
C2_TwoWritesPerDelivery ==
    \A w \in Workers :
        /\ \A k \in 1..Len(wlog[w]) : wlog[w][k].doc.id = job[w].id
        /\ pc[w] \in {"idle", "mark"} => Len(wlog[w]) = 0
        /\ pc[w] \in {"download", "blocked", "ops", "failed", "save"} =>
               IssuedStatuses(w) = <<StatusInProgress>>
        /\ pc[w] = "done" =>
               /\ Len(wlog[w]) = 2
               /\ IssuedStatuses(w)[1] = StatusInProgress
               /\ IssuedStatuses(w)[2] \in Terminal
        /\ pc[w] \in {"idle", "mark", "download", "blocked", "ops", "failed",
                    "save", "done"}

C2_Witness ==
    \E w \in Workers : pc[w] = "done" /\ Len(wlog[w]) = 2

\* C3: when source acquisition fails, the terminal record the worker writes
\* has status Failed, a non-empty error and no Results, no operation is
\* attempted and no object is written for that delivery.
C3_AcquisitionFailure ==
    \A w \in Workers :
        AcquisitionFailed(w) =>
            /\ attempts[w] = <<>>
            /\ ~ \E u \in uploads : u.id = job[w].id /\ u.copy = tag[w]
            /\ pc[w] \in {"failed", "done"}
            /\ pc[w] = "done" =>
                   LET rec == Unmarshal(wlog[w][Len(wlog[w])].doc) IN
                   /\ rec.status = StatusFailed
                   /\ rec.error # NoError
                   /\ rec.results = <<>>
                   /\ wlog[w][Len(wlog[w])].ok =>
                          (writer[rec.id] = [by |-> "worker", id |-> rec.id,
                                             copy |-> tag[w]]
                              => getJob(rec.id) = rec)

C3_Witness ==
    \E w \in Workers :
        /\ pc[w] = "done" /\ AcquisitionFailed(w)
        /\ wlog[w][2].ok /\ getJob(job[w].id).status = StatusFailed

\* C4: when acquisition succeeds every operation is attempted, in list order,
\* whatever the outcome of the earlier ones; the job ends Completed for any
\* number of failed operations, and its Results are exactly the successful
\* operations in list order.
C4_AllOperationsAttempted ==
    \A w \in Workers :
        Acquired(w) =>
            /\ \A k \in 1..Len(attempts[w]) :
                   /\ attempts[w][k].index = k
                   /\ attempts[w][k].op = job[w].operations[k]
            /\ pc[w] = "ops" => Len(attempts[w]) = idx[w] - 1
            /\ pc[w] \in {"save", "done"} =>
                   LET succeeded == SelectSeq(attempts[w], IsOk) IN
                   /\ Len(attempts[w]) = Len(job[w].operations)
                   /\ job[w].status = StatusCompleted
                   /\ Len(job[w].results) = Len(succeeded)
                   /\ \A k \in 1..Len(succeeded) :
                          ListedOperation(job[w].results[k], succeeded[k].op)
            /\ pc[w] = "done" =>
                   wlog[w][Len(wlog[w])].doc = Marshal(job[w])

\* a delivery ended Completed although an operation failed
C4_Witness ==
    \E w \in Workers :
        /\ pc[w] = "done" /\ Acquired(w)
        /\ \E k \in 1..Len(attempts[w]) : ~attempts[w][k].ok
        /\ getJob(job[w].id).status = StatusCompleted

\* C5: every job record persisted with a terminal status has at most as many
\* Results as Operations.
C5_ResultsBounded ==
    \A k \in JobIds :
        StoredTerminal(k) =>
            /\ 0 <= Len(getJob(k).results)
            /\ Len(getJob(k).results) <= Len(getJob(k).operations)

\* a Completed record with fewer Results than Operations, but some
C5_Witness ==
    \E k \in JobIds :
        /\ StoredTerminal(k)
        /\ Len(getJob(k).results) = 1
        /\ Len(getJob(k).operations) = 2

ValidOperation(op) ==
    /\ op.type \in {OpResize, OpFormat, OpWatermark}
    /\ op.width >= 0 /\ op.height >= 0

\* C7: a job with a decodable source and two operations, the first valid and
\* successful, the second with invalid parameters, ends Completed with exactly
\* one Result, the first operation's.
C7_InvalidSecondOperationSkipped ==
    \A w \in Workers :
        ( /\ pc[w] \in {"save", "done"}
          /\ Acquired(w)
          /\ Len(job[w].operations) = 2
          /\ ValidOperation(job[w].operations[1])
          /\ ~ValidOperation(job[w].operations[2])
          /\ attempts[w][1].ok )
        => /\ job[w].status = StatusCompleted
           /\ Len(job[w].results) = 1
           /\ ListedOperation(job[w].results[1], job[w].operations[1])

\* C8 (as claimed): a second processing of a job's message writes its outputs
\* under object keys different from those of the first (no two draws of the
\* random token being equal).
C8_RerunUsesDifferentKeys ==
    \A u1, u2 \in uploads :
        ( /\ u1.id = u2.id /\ u1.copy # u2.copy
          /\ ~(u1.derived /\ u2.derived /\ u1.token = u2.token) )
        => u1.key # u2.key

\* C8 (amended): a second processing of a job's message re-executes every
\* operation and overwrites the status record; an operation without an
\* explicit output key is stored under a key derived with a newly drawn token,
\* different from the first run's key exactly when the tokens differ, and an
\* operation with an explicit output key is stored under the same key as in
\* the first run.  Every key written is in the object store.
C8_RerunKeys ==
    /\ \A u1, u2 \in uploads :
           (u1.id = u2.id /\ u1.copy # u2.copy /\ u1.index = u2.index) =>
               ((u1.key = u2.key) <=> (~u1.derived \/ u1.token = u2.token))
    /\ \A u \in uploads : u.key \in DOMAIN objects
    /\ \A w \in Workers :
           (tag[w] > 1 /\ pc[w] = "done" /\ Acquired(w)) =>
               /\ Len(attempts[w]) = Len(job[w].operations)
               /\ (wlog[w][2].ok /\ writer[job[w].id].copy = tag[w]) =>
                      store[job[w].id] = Marshal(job[w])

\* the second run stored an output under a new key, and both objects exist
C8_Witness ==
    \E u1, u2 \in uploads :
        /\ u1.id = u2.id /\ u1.copy = 1 /\ u2.copy = 2 /\ u1.index = u2.index
        /\ u1.key # u2.key
        /\ {u1.key, u2.key} \subseteq DOMAIN objects
        /\ \E w \in Workers : pc[w] = "done" /\ tag[w] = 2 /\ wlog[w][2].ok

\* a message of the job is queued, or a worker is handling one
Pending(id) ==
    \/ \E k \in 1..Len(queue) :
           WellFormed(queue[k].body) /\ queue[k].body.id = id
    \/ \E w \in Workers : job[w] # NoJob /\ job[w].id = id

\* C9: delivery is at-least-once: the message of a delivery whose worker
\* stopped before persisting a terminal status is delivered again, so it is
\* queued or being handled until a terminal status is persisted for the job.
C9_AtLeastOnce ==
    \A d \in aborted : Pending(d.id) \/ StoredTerminal(d.id)

\* the job's record is Completed with one Result per operation
CompletedInFull(id) ==
    /\ getJob(id) # NoJob
    /\ getJob(id).status = StatusCompleted
    /\ Len(getJob(id).results) = Len(getJob(id).operations)

\* the job's message was published and its source can be fetched and decoded:
\* a URL (the network and the server do not fail here) or the key of a stored
\* object
AdmittedReachable(id) ==
    /\ sent[id] # NoJob
    /\ \/ HasPrefix(sent[id].image_url, "http://")
       \/ HasPrefix(sent[id].image_url, "https://")
       \/ sent[id].image_url \in DOMAIN objects

\* C10: with no failure, an admitted job with a reachable, decodable source
\* eventually has status completed in the status store with one Result per
\* operation, and a status read before that returns pending or in_progress.
C10_EventuallyCompleted ==
    /\ \A id \in JobIds : AdmittedReachable(id) ~> CompletedInFull(id)
    /\ [](\A id \in JobIds :
            AdmittedReachable(id) =>
                \/ CompletedInFull(id)
                \/ /\ getJob(id) # NoJob
                   /\ getJob(id).status \in {StatusPending, StatusInProgress})
    /\ [][\A id \in JobIds : CompletedInFull(id) => CompletedInFull(id)']_vars

\* an admitted job with a resize operation whose record reads completed, with
\* one Result per operation, after a worker handled its message to the end
C10_Witness ==
    \E id \in JobIds :
        /\ sent[id] # NoJob
        /\ CompletedInFull(id)
        /\ getJob(id).operations[1].type = OpResize
        /\ getJob(id).results[1].width > 0
        /\ \E w \in Workers : pc[w] = "done" /\ job[w].id = id

\* the worker has started the source fetch, or read or written an object, for
\* the delivery it is handling
SlowIOStarted(w) ==
    /\ job[w] # NoJob
    /\ \/ pc[w] \in {"blocked", "ops", "failed", "save", "done"}
       \/ Acquired(w) \/ AcquisitionFailed(w)
       \/ attempts[w] # <<>>
       \/ \E u \in uploads : u.id = job[w].id /\ u.copy = tag[w]

\* C11: for each delivery of a well-formed job message the InProgress status
\* write is issued before the source fetch starts and before any object-store
\* read or write for that job: once any of these has happened, the first
\* write issued for the delivery is the job's record with status InProgress.
C11_InProgressBeforeIO ==
    \A w \in Workers :
        SlowIOStarted(w) =>
            /\ Len(wlog[w]) >= 1
            /\ wlog[w][1].doc.id = job[w].id
            /\ wlog[w][1].doc.status = StatusInProgress

\* a worker fetched the source and readers see the job in progress
C11_Witness ==
    \E w \in Workers :
        /\ pc[w] = "ops" /\ Acquired(w) /\ attempts[w] = <<>>
        /\ wlog[w][1].ok
        /\ getJob(job[w].id).status = StatusInProgress

\* the message at the head of the queue does not decode into a Job
MalformedAtHead == queue # <<>> /\ ~WellFormed(Head(queue).body)

\* C12: a message whose payload cannot be decoded is dropped: the step that
\* takes it from the queue removes it and nothing else, writes nothing to the
\* status store or the object store, does not put it back, and leaves the
\* worker at the top of its loop, ready for the next message.
C12_MalformedDropped ==
    [][(MalformedAtHead /\ queue' # queue /\ Len(queue') <= Len(queue)) =>
          /\ queue' = Tail(queue)
          /\ store' = store /\ expiry' = expiry /\ objects' = objects
          /\ pc' = pc /\ job' = job /\ wlog' = wlog
          /\ \E w \in Workers : pc'[w] = "idle"]_vars

\* a corrupt message was queued and taken, and the stores are as they were
C12_Witness ==
    /\ nextId = 0 /\ replies = <<>>
    /\ faults >= 1
    /\ queue = <<>>
    /\ \A k \in JobIds : ~Stored(k)
    /\ objects = InitObjects
    /\ \A w \in Workers : pc[w] = "idle"

\* in this step worker w takes a well-formed message from the queue
Takes(w) ==
    /\ queue # <<>> /\ WellFormed(Head(queue).body)
    /\ queue' = Tail(queue)
    /\ job'[w] = Unmarshal(Head(queue).body)
    /\ job'[w] # job[w]

\* C13: within one worker process messages are handled one at a time: a
\* worker takes a message only while it has none in hand, it leaves a message
\* (without its process stopping) only after the terminal status write for it
\* was attempted, and the writes it has issued and not yet left behind are
\* all for the one job it has in hand.
C13_OneAtATime ==
    [][\A w \in Workers :
          /\ Takes(w) => (pc[w] = "idle" /\ job[w] = NoJob /\ wlog[w] = <<>>)
          /\ (pc[w] # "idle" /\ pc'[w] = "idle" /\ faults' = faults) =>
                 (pc[w] = "done" /\ TerminalIssued(w))
          /\ \A k \in 1..Len(wlog[w]) : wlog[w][k].doc.id = job[w].id]_vars

\* a worker that handled a message to its terminal write has taken the next
C13_Witness ==
    \E w \in Workers :
        /\ prior[w] # "none"
        /\ pc[w] = "mark"
        /\ wlog[w] = <<>>

\* in this step worker w issues a status write that fails
FailedWrite(w) ==
    /\ Len(wlog'[w]) = Len(wlog[w]) + 1
    /\ ~wlog'[w][Len(wlog'[w])].ok

\* C14: when a status-store write fails the worker neither retries it nor
\* stops: the stored record and its expiry stay as they were, a failed
\* InProgress write is followed by the processing of the same job, a failed
\* terminal write by the end of the iteration, and no delivery has more than
\* its two writes issued.
C14_FailedWriteNotRetried ==
    [][\A w \in Workers :
          /\ FailedWrite(w) =>
                /\ store' = store /\ expiry' = expiry
                /\ job'[w].id = job[w].id
                /\ pc[w] = "mark" => pc'[w] = "download"
                /\ pc[w] \in {"failed", "save"} => pc'[w] = "done"
                /\ pc[w] \in {"mark", "failed", "save"}
          /\ Len(wlog'[w]) <= 2
          /\ (Len(wlog'[w]) = 2 /\ Len(wlog[w]) = 2) => wlog'[w] = wlog[w]]_vars

\* the InProgress write failed, and the job was processed and its terminal
\* record stored all the same
C14_Witness ==
    \E w \in Workers :
        /\ pc[w] = "done"
        /\ ~wlog[w][1].ok /\ wlog[w][2].ok
        /\ getJob(job[w].id).status = StatusCompleted
        /\ Len(getJob(job[w].id).results) >= 1

\* the ids of the jobs whose message is queued or in a worker's hands
Enqueued ==
    {queue[k].body.id : k \in {i \in 1..Len(queue) : WellFormed(queue[i].body)}}
        \cup {job[w].id : w \in {v \in Workers : job[v] # NoJob}}

\* C15: the admission handler persists the Pending record before it publishes
\* the message: a job whose message is queued or with a worker has a record
\* in the status store, written by the handler before any worker's write, and
\* the stored status of a job never changes from InProgress, Completed or
\* Failed back to Pending.
C15_PendingBeforePublish ==
    /\ [](\A id \in Enqueued :
            /\ Stored(StatusKey(id))
            /\ store[StatusKey(id)].id = id
            /\ writer[StatusKey(id)].by \in {"api", "worker"})
    /\ [][\A k \in JobIds :
            (Stored(k) /\ store[k].status # StatusPending) =>
                (Stored(k)' /\ store'[k].status # StatusPending)]_vars
    /\ [][\A k \in JobIds :
            (~Stored(k) /\ Stored(k)') =>
                (store'[k].status = StatusPending /\ writer'[k].by = "api")]_vars

\* a worker has received a job and the job's record reads pending
C15_Witness ==
    \E w \in Workers :
        /\ pc[w] = "mark"
        /\ getJob(job[w].id) # NoJob
        /\ getJob(job[w].id).status = StatusPending

\* in this step the record under key k, or its expiry, is written
Written(k) ==
    \/ store'[k] # store[k]
    \/ expiry'[k] # expiry[k]
    \/ writer'[k] # writer[k]

\* C16: after a job's message has been published the only component that
\* writes the job's status record is a worker: a step that writes it is a
\* worker's write for that job and no step of the admission handler, and a
\* step of the status service writes nothing to the status store.
C16_OnlyWorkerWritesAfterPublish ==
    [][/\ \A k \in JobIds :
            (sent[k] # NoJob /\ Written(k)) =>
                /\ writer'[k].by = "worker"
                /\ writer'[k].id = k
                /\ apiVars' = apiVars
                /\ replies' = replies
       /\ replies' # replies =>
            (store' = store /\ expiry' = expiry /\ writer' = writer)]_vars

\* a published job's record was written by a worker and then read through
\* the status service
C16_Witness ==
    \E id \in JobIds :
        /\ sent[id] # NoJob
        /\ writer[id].by = "worker"
        /\ replies # <<>>
        /\ replies[Len(replies)].req.path = <<"", "jobs", id>>
        /\ replies[Len(replies)].reply.code = 200
        /\ replies[Len(replies)].reply.body = store[id]

\* the fields every serialized Job holds (the others are left out when empty)
AlwaysSerialized == {"id", "status", "image_url", "operations", "created_at"}

\* the documents a component has just serialized for a write: the jobs of the
\* admission handlers that have saved, and each worker's latest write
JustSerialized ==
    {Marshal(j) : j \in inflight'}
        \cup {wlog'[w][Len(wlog'[w])].doc :
                 w \in {v \in Workers : wlog'[v] # <<>>}}

\* C17: every status-store write, by the admission handler and by the worker,
\* stores the whole serialized Job under the key of its job id with a 24-hour
\* expiry: a stored value is a whole Job document of that id with the expiry
\* set, a write replaces the value by the document its writer serialized, and
\* no step removes a key.
C17_WholeRecordWithExpiry ==
    /\ [](\A k \in JobIds :
            /\ Stored(k) =>
                  /\ store[k].id = k
                  /\ AlwaysSerialized \subseteq DOMAIN store[k]
                  /\ DOMAIN store[k] \subseteq JobFields
                  /\ expiry[k] = JobTTLHours
            /\ ~Stored(k) => expiry[k] = NoExpiry)
    /\ [][\A k \in JobIds :
            /\ Stored(k) => Stored(k)'
            /\ Written(k) =>
                  /\ store'[k] \in JustSerialized
                  /\ expiry'[k] = JobTTLHours]_vars

\* a worker's terminal record replaced the record of the delivery before it
C17_Witness ==
    \E k \in JobIds :
        /\ StoredTerminal(k)
        /\ writer[k] = [by |-> "worker", id |-> k, copy |-> 2]
        /\ expiry[k] = JobTTLHours

\* in this step the status service answers a request
Answered == Len(replies') = Len(replies) + 1

\* C18: a status read by job id returns not-found exactly when the job's key
\* is absent from the status store, and otherwise the currently stored
\* envelope: a stored job, whatever its status, is never reported not-found.
\* (A read during which the status store cannot be reached is answered 500.)
C18_NotFoundIffAbsent ==
    [][Answered =>
          LET e == replies'[Len(replies')] IN
          /\ e.reply.code = 404 => (ReachesStore(e.req) /\ ~Stored(e.req.path[3]))
          /\ e.reply.code = 200 =>
                /\ ReachesStore(e.req) /\ Stored(e.req.path[3])
                /\ e.reply.body = store[e.req.path[3]]
          /\ (ReachesStore(e.req) /\ faults' = faults) =>
                e.reply.code = (IF Stored(e.req.path[3]) THEN 200 ELSE 404)
          /\ (ReachesStore(e.req) /\ faults' # faults) => e.reply.code = 500
          /\ ~ReachesStore(e.req) => e.reply.code \in {400, 405}]_vars

\* a read of a job that is still pending was answered with its envelope
C18_Witness ==
    \E i \in 1..Len(replies) :
        /\ replies[i].reply.code = 200
        /\ replies[i].reply.body.status = StatusPending
        /\ replies[i].reply.body.id = replies[i].req.path[3]

\* the operation lists of the admission requests that carry operations
RequestedOperations ==
    {req.operations : req \in {r \in ValidRequests : Len(r.operations) > 0}}

\* one operation: Resize, width 800, height 600, format jpeg, quality 90
SingleResize800x600 ==
    <<[type |-> "resize", width |-> 800, height |-> 600, format |-> "jpeg",
       quality |-> 90, watermark |-> "", output_key |-> <<>>]>>

\* C19: a request with a source reference and no operations is admitted with
\* exactly one operation, Resize 800x600 jpeg quality 90; every successful
\* admission returns, persists and enqueues the same envelope, with status
\* pending, a job id not used before, no results and no completion time.
C19_AdmittedEnvelope ==
    /\ [](\A req \in ValidRequests, id \in JobIds :
            Len(req.operations) = 0 => CreateJob(req, id).operations = SingleResize800x600)
    /\ [](\A id \in JobIds :
            returned[id] # NoJob =>
                /\ returned[id] = sent[id]
                /\ returned[id].id = id
                /\ returned[id].status = StatusPending
                /\ returned[id].image_url # NoURL
                /\ returned[id].operations \in
                       {SingleResize800x600} \cup RequestedOperations
                /\ DOMAIN returned[id] = AlwaysSerialized)
    /\ [][\A id \in JobIds :
            returned'[id] # returned[id] =>
                /\ returned[id] = NoJob /\ sent[id] = NoJob
                /\ store[id] = returned'[id] /\ store'[id] = returned'[id]
                /\ queue' = Append(queue, [body |-> returned'[id], copy |-> 1])]_vars
    /\ [][\A k \in JobIds :
            (~Stored(k) /\ Stored(k)') =>
                (sent[k] = NoJob /\ returned[k] = NoJob)]_vars

\* a request without operations was admitted, answered and enqueued with the
\* default operation
C19_Witness ==
    \E id \in JobIds :
        /\ returned[id] # NoJob
        /\ Len(returned[id].operations) = 1
        /\ returned[id].operations[1].width = 800
        /\ returned[id].operations[1].height = 600
        /\ \E k \in 1..Len(queue) : queue[k].body = returned[id]
        /\ store[id] = returned[id]

\* the delivery worker w is at the end of ended Failed, or Completed with a
\* failed operation
EndedWithErrors(w) ==
    /\ pc[w] = "done"
    /\ HandledAs(w) \in {"failed", "partial"}

UploadedFor(u) == sent[u.id].operations[u.index]

\* C21 (as claimed): when an operation carries an explicit output key the
\* object is stored under exactly that key, unmodified.
C21_ExplicitKeyIsObjectKey ==
    \A u \in uploads :
        UploadedFor(u).output_key # NoKey => u.key = UploadedFor(u).output_key

\* C21 (amended): when an operation carries an explicit output key the object
\* is stored under that key followed by the extension of the operation's
\* format, and the Result's output key is the explicit key, unmodified; when
\* it carries none, the key is processed/<job id>/<kind>_<token>, with a token
\* drawn for this upload, followed by the same extension, and the Result's
\* output key is that derived key.  The object is in the object store under
\* the key, and the Result's output location is the key.
C21_OutputKey ==
    /\ \A u \in uploads :
           LET op == UploadedFor(u)
               ext == IF op.format = "jpeg" THEN <<".", "jpg">>
                      ELSE <<".", op.format>>
           IN  /\ u.key \in DOMAIN objects
               /\ op.output_key # NoKey => u.key = op.output_key \o ext
               /\ op.output_key = NoKey =>
                      /\ u.token # NoToken
                      /\ u.key = <<"processed", u.id, op.type, u.token>> \o ext
    /\ \A w \in Workers :
           \A k \in 1..Len(results[w]) :
               LET given == job[w].operations[k].output_key
                   r == results[w][k]
               IN  /\ given # NoKey => r.output_key = given
                   /\ given = NoKey =>
                          /\ Len(r.output_key) = 4
                          /\ r.output_key[1] = "processed"
                          /\ r.output_key[2] = job[w].id
                          /\ r.output_key[3] = job[w].operations[k].type
                   /\ r.output_url \in DOMAIN objects
                   /\ \E u \in uploads : u.id = job[w].id /\ u.key = r.output_url

\* an operation with an explicit key and format png was uploaded, and its
\* Result carries the explicit key and the location of the stored object
C21_Witness ==
    \E u \in uploads, w \in Workers :
        /\ UploadedFor(u).output_key = <<"test-thumbnail">>
        /\ UploadedFor(u).format = FormatPNG
        /\ u.key = <<"test-thumbnail", ".", "png">>
        /\ u.key \in DOMAIN objects
        /\ pc[w] = "done" /\ job[w].id = u.id
        /\ job[w].results[1].output_key = <<"test-thumbnail">>
        /\ job[w].results[1].output_url = u.key

\* two uploads made for different jobs, or for different operations of one job
DifferentOperations(u1, u2) ==
    u1.id # u2.id \/ (u1.id = u2.id /\ u1.index # u2.index)

\* C22 (as claimed): object keys are unique per job: no two different jobs,
\* and no two operations of one job, ever write the same object-store key
\* (no two draws of the random token being equal).
C22_KeysUniquePerJob ==
    \A u1, u2 \in uploads :
        ( /\ DifferentOperations(u1, u2)
          /\ ~(u1.derived /\ u2.derived /\ u1.token = u2.token) )
        => u1.key # u2.key

\* C22 (amended): the keys derived for different jobs are different, and the
\* keys derived for one job are different when the operation kinds or the
\* tokens drawn are.  Explicit output keys are used as given: two operations,
\* of one job or of different jobs, that carry the same explicit key and the
\* same format write the same object key, and the later upload replaces the
\* object the earlier Result refers to.
C22_DerivedKeysUniquePerJob ==
    \A u1, u2 \in uploads :
        /\ (u1.derived /\ u2.derived /\ u1.id # u2.id) => u1.key # u2.key
        /\ ( /\ u1.derived /\ u2.derived /\ u1.id = u2.id
             /\ (u1.kind # u2.kind \/ u1.token # u2.token) ) => u1.key # u2.key
        /\ ( /\ ~u1.derived /\ ~u2.derived
             /\ UploadedFor(u1).output_key = UploadedFor(u2).output_key
             /\ UploadedFor(u1).format = UploadedFor(u2).format )
           => u1.key = u2.key

\* two workers each uploaded the output of another job, both under keys
\* derived with the same token, and both objects are in the object store
C22_Witness ==
    \E u1, u2 \in uploads :
        /\ u1.id # u2.id
        /\ u1.derived /\ u2.derived
        /\ u1.kind = u2.kind /\ u1.token = u2.token
        /\ u1.key # u2.key
        /\ {u1.key, u2.key} \subseteq DOMAIN objects

\* the persisted record of job id has a Result that refers to the object key
Refers(id, key) ==
    /\ getJob(id) # NoJob
    /\ \E i \in 1..Len(getJob(id).results) : getJob(id).results[i].output_url = key

\* an object uploaded for a job that no persisted record of the job refers to
Orphaned(u) == u.key \in DOMAIN objects /\ ~Refers(u.id, u.key)

\* in this step worker w uploads the output of an operation
Uploads(w) == Len(attempts'[w]) = Len(attempts[w]) + 1

\* C23: there is no atomic coupling between an upload and the status write.
\* The step that uploads an object writes no record; the record written for
\* a delivery before its terminal write has no Results; a worker that stops
\* after an upload, and a terminal write that fails, leave the status store
\* as it was and the uploaded objects in place; and no step removes an object.
\* So an uploaded object stays without a referring record (the witness).
C23_NoAtomicCoupling ==
    /\ [][\A w \in Workers :
            Uploads(w) => (store' = store /\ expiry' = expiry)]_vars
    /\ [](\A w \in Workers :
            ( /\ pc[w] \in {"ops", "save"}
              /\ writer[StatusKey(job[w].id)] =
                     [by |-> "worker", id |-> job[w].id, copy |-> tag[w]] )
            => /\ getJob(job[w].id).status = StatusInProgress
               /\ getJob(job[w].id).results = <<>>)
    /\ [][\A w \in Workers :
            (FailedWrite(w) /\ pc[w] = "save") =>
                (store' = store /\ objects' = objects /\ pc'[w] = "done")]_vars
    /\ [][\A w \in Workers :
            (pc[w] \in {"ops", "save"} /\ pc'[w] = "idle") =>
                /\ store' = store /\ objects' = objects
                /\ Delivery(w) \in aborted']_vars
    /\ [][\A k \in DOMAIN objects :
            k \in DOMAIN objects' /\ (uploads' = uploads => objects'[k] = objects[k])]_vars

\* a worker stopped after an upload: the object is in the object store, the
\* job's record is still in progress and has no Result, and no worker is
\* handling the job
C23_Witness ==
    \E u \in uploads :
        /\ Orphaned(u)
        /\ [id |-> u.id, copy |-> u.copy] \in aborted
        /\ getJob(u.id) # NoJob
        /\ getJob(u.id).status = StatusInProgress
        /\ \A w \in Workers : pc[w] = "idle"

\* worker w is in a source fetch over HTTP that has got no answer
AwaitingResponse(w) == pc[w] = "blocked" /\ via[w] = "http"

\* C24: network calls are individually deadline-bounded: a worker whose source
\* fetch over HTTP gets no answer from the server is not held by it: its
\* code has a next step (the fetch is abandoned at its deadline, the job is
\* marked Failed and the worker goes on to the next message).
C24_FetchDeadlineBounded ==
    \A w \in Workers : AwaitingResponse(w) => ENABLED WorkerStep(w)

\* worker w has a message in hand, or is where it takes one
Consuming(w) == job[w] # NoJob \/ pc[w] \in {"idle", "mark"}

\* C25: worker startup is fail-fast.  Each connection wait makes at most 30
\* attempts: while a worker is in a wait fewer than 30 attempts have failed,
\* and the 30th failure ends the process.  A wait returns at the first
\* attempt that succeeds, and main goes on to the next position.  A worker
\* consumes no message before the status store, the queue and the object
\* store have all been connected to, and an ended process consumes none.
C25_FailFastStartup ==
    /\ [](\A w \in Workers :
            /\ tries[w] <= 30
            /\ pc[w] \in Waits => tries[w] < 30
            /\ tries[w] = 30 => pc[w] = "exited"
            /\ Consuming(w) => connected[w] = {"redis", "rabbitmq", "minio"}
            /\ pc[w] = "exited" => job[w] = NoJob)
    /\ [][\A w \in Workers :
            /\ connected'[w] # connected[w] =>
                  /\ pc[w] \in Waits /\ pc'[w] \notin {pc[w], "exited"}
                  /\ connected'[w] = connected[w] \cup {WaitsFor(pc[w])}
                  /\ tries'[w] = 0
            /\ tries'[w] > tries[w] =>
                  /\ pc[w] \in Waits
                  /\ tries'[w] = tries[w] + 1
                  /\ connected'[w] = connected[w]
                  /\ pc'[w] = (IF tries'[w] = 30 THEN "exited" ELSE pc[w])
            /\ pc[w] = "exited" => pc'[w] = "exited"
            /\ Len(queue') < Len(queue) =>
                  \E v \in Workers :
                      /\ connected[v] = {"redis", "rabbitmq", "minio"}
                      /\ pc[v] = "idle" /\ job'[v] # NoJob]_vars

\* one worker gave up on the object store after 30 failed attempts, having
\* connected to the status store and the queue, and took no message; the
\* other connected to all three and has taken the queued message
C25_Witness ==
    \E w, v \in Workers :
        /\ pc[w] = "exited" /\ tries[w] = 30
        /\ connected[w] = {"redis", "rabbitmq"}
        /\ job[w] = NoJob
        /\ pc[v] = "mark" /\ connected[v] = Services
        /\ job[v].id = 1

\* the source references of the admitted jobs, and one with the plain scheme
SourceReferences ==
    {req.image_url : req \in ValidRequests} \cup {<<"http://", "example.org/a.png">>}

\* the reference begins with http:// or https://
BeginsWithScheme(url) == url # <<>> /\ url[1] \in {"http://", "https://"}

\* C26: source dispatch is decided by the reference alone.  A worker that
\* has started acquisition fetched over HTTP exactly when its job's reference
\* begins with http:// or https://, and read from the bucket otherwise; for
\* every reference and every state of the object store an HTTP response with
\* a status other than success makes acquisition fail, and so does a key
\* under which the bucket holds no object, even when the read itself works.
C26_SourceDispatch ==
    /\ \A w \in Workers :
           via[w] # "none" =>
               /\ via[w] = (IF BeginsWithScheme(job[w].image_url)
                            THEN "http" ELSE "storage")
               /\ ( /\ via[w] = "storage"
                    /\ job[w].image_url \notin DOMAIN objects )
                  => /\ AcquisitionFailed(w) /\ ~Acquired(w)
                     /\ pc[w] \in {"failed", "done"}
               /\ (perr[w] # NoError /\ perr[w][2] = "HTTP error: ") =>
                     /\ via[w] = "http" /\ ~Acquired(w)
                     /\ pc[w] \in {"failed", "done"}
    /\ \A url \in SourceReferences, outcome \in FetchOutcomes \ {"no_response"} :
           LET d == downloadImage(url, objects, outcome) IN
           /\ d.via = (IF BeginsWithScheme(url) THEN "http" ELSE "storage")
           /\ (BeginsWithScheme(url) /\ outcome = "bad_status") =>
                  (d.err # NoError /\ d.img = NoImage)
           /\ (~BeginsWithScheme(url) /\ url \notin DOMAIN objects) =>
                  (d.err # NoError /\ d.img = NoImage)
           /\ (outcome = "ok" /\ (BeginsWithScheme(url) \/ url \in DOMAIN objects))
                  => (d.err = NoError /\ d.img # NoImage)

\* one worker fetched its job's source over HTTP and decoded it; the other
\* was given a key under which the bucket holds nothing, and its acquisition
\* failed
C26_Witness ==
    \E w, v \in Workers :
        /\ via[w] = "http" /\ Acquired(w)
        /\ job[w].image_url = HttpSource
        /\ via[v] = "storage" /\ AcquisitionFailed(v)
        /\ job[v].image_url \notin DOMAIN objects
        /\ pc[v] = "failed"

\* the last two parts of an object key: the dot and what follows it
KeyEnding(key) == SubSeq(key, Len(key) - 1, Len(key))

\* the format of the bytes stored under an upload's key
StoredFormat(u) == objects[u.key].encoding.format

\* C27 (as claimed): the stored object's key ends with the extension of the
\* target format, .jpg for jpeg and .<format> otherwise, and the upload's
\* content type is image/<format>, <format> being the format of the bytes
\* actually stored.
C27_TypeOfStoredBytes ==
    \A u \in uploads :
        /\ KeyEnding(u.key) =
               (IF UploadedFor(u).format = "jpeg" THEN <<".", "jpg">>
                ELSE <<".", UploadedFor(u).format>>)
        /\ objects[u.key].content_type = <<"image/", StoredFormat(u)>>

\* C27 (amended): the stored object's key ends with the extension of the
\* operation's target format, .jpg for jpeg and .<format> for every other
\* format, and the upload's content type is image/<format> with the
\* operation's target format.  The bytes stored are PNG for png and JPEG for
\* every other target format, so the content type names the format of the
\* stored bytes exactly when the target format is jpeg or png.
C27_ExtensionAndContentType ==
    \A u \in uploads :
        LET f == UploadedFor(u).format IN
        /\ KeyEnding(u.key) = (IF f = "jpeg" THEN <<".", "jpg">> ELSE <<".", f>>)
        /\ objects[u.key].content_type = <<"image/", f>>
        /\ StoredFormat(u) = (IF f = "png" THEN "png" ELSE "jpeg")
        /\ (objects[u.key].content_type = <<"image/", StoredFormat(u)>>)
               <=> f \in {"jpeg", "png"}

\* an operation with target format webp was stored: the key ends in .webp,
\* the content type is image/webp and the bytes are JPEG
C27_Witness ==
    \E u \in uploads :
        /\ UploadedFor(u).format = FormatWebP
        /\ KeyEnding(u.key) = <<".", "webp">>
        /\ objects[u.key].content_type = <<"image/", "webp">>
        /\ StoredFormat(u) = FormatJPEG

\* the quality the encoder was given for the bytes stored under an upload's key
StoredQuality(u) == objects[u.key].encoding.quality

Unsupported(format) == format \notin {"jpeg", "png", "webp"}

\* C29: an operation whose target format is not supported, the empty format
\* included, is not an operation failure: once it has been attempted (with
\* the upload working) it has succeeded, the job has a Result for it, and
\* the object stored for it is JPEG at quality 90.
C29_UnsupportedFormatFallsBack ==
    \A w \in Workers :
        \A k \in 1..Len(attempts[w]) :
            Unsupported(attempts[w][k].op.format) =>
                /\ attempts[w][k].ok
                /\ Len(results[w]) = Len(attempts[w])
                /\ results[w][k].format = attempts[w][k].op.format
                /\ results[w][k].output_url \in DOMAIN objects
                /\ objects[results[w][k].output_url].encoding =
                       [format |-> "jpeg", quality |-> 90]
                /\ pc[w] \in {"save", "done"} =>
                       (job[w].status = StatusCompleted /\ job[w].results = results[w])

\* an operation with the empty format ended as a Result of a completed job,
\* stored as JPEG at quality 90 under a key ending in a dot
C29_Witness ==
    \E w \in Workers :
        /\ pc[w] = "done"
        /\ job[w].operations[1].format = ""
        /\ job[w].operations[1].quality = 50
        /\ getJob(job[w].id).status = StatusCompleted
        /\ Len(getJob(job[w].id).results) = 1
        /\ KeyEnding(getJob(job[w].id).results[1].output_url) = <<".", "">>
        /\ objects[getJob(job[w].id).results[1].output_url].encoding.quality = 90

\* C30: a Resize operation with both width and height greater than zero
\* yields a Result whose width and height are exactly those values; with
\* neither given it yields a Result with the dimensions of the input raster;
\* an operation of kind Format or Watermark never changes the raster's
\* dimensions, whatever its width and height fields hold.  The object stored
\* for the Result has the Result's dimensions.
C30_ResultDimensions ==
    \A w \in Workers :
        \A k \in 1..Len(results[w]) :
            LET op == job[w].operations[k]
                src == attempts[w][k].input
                r == results[w][k]
            IN  /\ Len(results[w]) = Len(attempts[w])
                /\ src = img[w]
                /\ (op.type = "resize" /\ op.width > 0 /\ op.height > 0) =>
                       (r.width = op.width /\ r.height = op.height)
                /\ (op.type = "resize" /\ op.width = 0 /\ op.height = 0) =>
                       (r.width = src.w /\ r.height = src.h)
                /\ op.type \in {"format", "watermark"} =>
                       /\ r.width = src.w /\ r.height = src.h
                       /\ attempts[w][k].output = src
                /\ objects[r.output_url].raster = [w |-> r.width, h |-> r.height]

\* a Format operation with width 3 and height 5 has a Result with the
\* dimensions of the source raster, 4 by 2
C30_Witness ==
    \E w \in Workers :
        /\ pc[w] = "done"
        /\ job[w].operations[1].type = OpFormat
        /\ job[w].operations[1].width = 3 /\ job[w].operations[1].height = 5
        /\ img[w] = [w |-> 4, h |-> 2]
        /\ getJob(job[w].id).results[1].width = 4
        /\ getJob(job[w].id).results[1].height = 2

\* source rasters and target sides the scaling is also evaluated for, among
\* them sources so flat or so narrow that the scaled side rounds to zero
ScaledSources == {[w |-> a, h |-> b] : a \in {1, 2, 4, 9}, b \in {1, 2, 4, 9}}
ScaledSides == {1, 2, 3, 5}

\* n is the ratio num/den rounded to an integer (halves upwards) and at least 1
IsScaled(n, num, den) ==
    \/ /\ n >= 1
       /\ 2 * n * den - den <= 2 * num
       /\ 2 * num < 2 * n * den + den
    \/ n = 1 /\ 2 * num < den

\* C31: a Resize operation with only width set (height zero) yields an output
\* of exactly that width whose height is the source height scaled by
\* width / source width, rounded to an integer and at least 1; symmetrically
\* when only height is set.  This holds of every operation a worker has
\* attempted and its Result, and of applyOperation on each of the sources
\* and sides above.
C31_AspectPreserved ==
    /\ \A w \in Workers :
           \A k \in 1..Len(attempts[w]) :
               LET op == attempts[w][k].op
                   src == attempts[w][k].input
                   out == attempts[w][k].output
               IN  /\ (op.type = "resize" /\ op.width > 0 /\ op.height = 0) =>
                          /\ out.w = op.width
                          /\ IsScaled(out.h, op.width * src.h, src.w)
                   /\ (op.type = "resize" /\ op.width = 0 /\ op.height > 0) =>
                          /\ out.h = op.height
                          /\ IsScaled(out.w, op.height * src.w, src.h)
                   /\ attempts[w][k].ok =>
                          /\ k <= Len(results[w])
                          /\ results[w][k].width = out.w
                          /\ results[w][k].height = out.h
    /\ \A src \in ScaledSources, side \in ScaledSides :
           LET byWidth ==
                   applyOperation(src, ImageOperation("resize", side, 0, "jpeg", 0, "", <<>>))
               byHeight ==
                   applyOperation(src, ImageOperation("resize", 0, side, "jpeg", 0, "", <<>>))
           IN  /\ byWidth.w = side
               /\ IsScaled(byWidth.h, side * src.h, src.w)
               /\ byHeight.h = side
               /\ IsScaled(byHeight.w, side * src.w, src.h)

\* a Resize to width 3 alone of the 4 by 2 source gave a Result of 3 by 2
\* (1.5 rounded up), stored in the job's completed record
C31_Witness ==
    \E w \in Workers :
        /\ pc[w] = "done"
        /\ job[w].operations[1].type = OpResize
        /\ job[w].operations[1].width = 3 /\ job[w].operations[1].height = 0
        /\ img[w] = [w |-> 4, h |-> 2]
        /\ getJob(job[w].id).results[1].width = 3
        /\ getJob(job[w].id).results[1].height = 2

\* what admission fixed of a job: id, source reference, creation time and
\* the list of operations
Admitted(j) ==
    [id |-> j.id, image_url |-> j.image_url, created_at |-> j.created_at,
     operations |-> j.operations]

\* worker w is handling a delivery
Handling(w) == pc[w] \in {"mark", "download", "blocked", "ops", "failed", "save", "done"}

\* C32: processing never changes what was admitted.  The job a worker takes
\* from a message has the message's id, source reference, creation time and
\* operations; no step of the handling changes them in the worker's job; and
\* every record the worker issues to the status store, and every record stored
\* by a worker, carries them as the published message did, also when an
\* output key was derived for an operation.
C32_AdmittedUnchanged ==
    /\ [][\A w \in Workers :
            /\ (~Handling(w) /\ Handling(w)') =>
                   /\ queue # <<>>
                   /\ Admitted(job'[w]) = Admitted(Unmarshal(Head(queue).body))
            /\ (Handling(w) /\ Handling(w)') =>
                   Admitted(job'[w]) = Admitted(job[w])]_vars
    /\ [](\A w \in Workers :
            /\ Handling(w) => Admitted(job[w]) = Admitted(Unmarshal(sent[job[w].id]))
            /\ \A k \in 1..Len(wlog[w]) :
                   Admitted(Unmarshal(wlog[w][k].doc)) = Admitted(job[w]))
    /\ [](\A id \in JobIds :
            (Stored(StatusKey(id)) /\ sent[id] # NoJob) =>
                Admitted(Unmarshal(store[StatusKey(id)])) = Admitted(Unmarshal(sent[id])))

\* a completed record is stored for a job one of whose operations came
\* without an output key: the Result holds the derived key, the record's
\* operation still has none
C32_Witness ==
    \E id \in JobIds :
        /\ Stored(StatusKey(id))
        /\ store[StatusKey(id)].status = StatusCompleted
        /\ writer[StatusKey(id)].by = "worker"
        /\ \E k \in 1..Len(store[StatusKey(id)].results) :
               LET r == store[StatusKey(id)].results[k] IN
                /\ r.operation.output_key # NoKey
                /\ \E i \in 1..Len(store[StatusKey(id)].operations) :
                       /\ store[StatusKey(id)].operations[i].output_key = NoKey
                       /\ ListedOperation(r, store[StatusKey(id)].operations[i])

\* C33: every Result records the outcome of its upload: its byte size equals
\* the number of bytes written to the object store for it, and its format is
\* the format in which those bytes were encoded.
C33_ResultRecordsUpload ==
    \A w \in Workers :
        \A k \in 1..Len(results[w]) :
            LET r == results[w][k] IN
             /\ r.output_url \in DOMAIN objects
             /\ r.size = objects[r.output_url].size
             /\ r.format = objects[r.output_url].encoding.format

\* the keys of the objects written for job id so far
WrittenKeys(id) == {u.key : u \in {v \in uploads : v.id = id}}

\* the Results of a stored document (none when the field is omitted)
ResultsOf(doc) == Unmarshal(doc).results

\* a side no encoder accepts
TooWide == 65536

\* C34: in every persisted job record each Result's output location names an
\* object that was written to the object store before the record was
\* persisted.  A Result is appended only after its upload returned success:
\* the Results of a delivery are, in order, those of its operations whose
\* upload succeeded, and an operation whose encode or upload failed leaves
\* no Result.
C34_ResultsNameWrittenObjects ==
    /\ [][\A id \in JobIds :
            store'[StatusKey(id)] # store[StatusKey(id)] =>
                \A k \in 1..Len(ResultsOf(store'[StatusKey(id)])) :
                    LET r == ResultsOf(store'[StatusKey(id)])[k] IN
                     /\ r.output_url \in WrittenKeys(id)
                     /\ r.output_url \in DOMAIN objects]_vars
    /\ [](\A w \in Workers :
            LET done == SelectSeq(attempts[w], IsOk) IN
             /\ Len(results[w]) = Len(done)
             /\ \A k \in 1..Len(done) :
                    /\ ListedOperation(results[w][k], done[k].op)
                    /\ \E u \in uploads :
                           /\ u.id = job[w].id /\ u.copy = tag[w]
                           /\ u.index = done[k].index
                           /\ u.key = results[w][k].output_url
             /\ \A k \in 1..Len(attempts[w]) :
                    ~attempts[w][k].ok =>
                        ~\E u \in uploads :
                            /\ u.id = job[w].id /\ u.copy = tag[w]
                            /\ u.index = attempts[w][k].index)
    /\ [](\A f \in {FormatJPEG, FormatPNG}, putOk \in BOOLEAN :
            LET op == ImageOperation(OpResize, TooWide, 1, f, 0, "", <<"out">>)
                r == processOperation(SourceRaster, op, 1, NoToken, putOk)
            IN  /\ r.err # NoError
                /\ ~r.up.put
                /\ AppendResult(<<>>, r) = <<>>)

\* a completed record is stored for a delivery one of whose uploads failed
\* and another succeeded: it holds the one Result, whose object is stored
C34_Witness ==
    \E w \in Workers :
        /\ pc[w] = "done"
        /\ \E a \in 1..Len(attempts[w]) : ~attempts[w][a].ok
        /\ Len(results[w]) = 1
        /\ wlog[w][Len(wlog[w])].ok
        /\ ResultsOf(store[StatusKey(job[w].id)]) = results[w]
        /\ results[w][1].output_url \in DOMAIN objects

\* every record persisted so far: the stored ones and those a worker's
\* successful writes of its delivery stored
PersistedRecords ==
    {Unmarshal(store[StatusKey(id)]) : id \in {i \in JobIds : Stored(StatusKey(i))}}
    \cup UNION {{Unmarshal(wlog[w][k].doc) : k \in {n \in 1..Len(wlog[w]) : wlog[w][n].ok}}
                : w \in Workers}

\* C35: for jobs admitted through the admission handler, every persisted
\* record has a completion time exactly when its status is Completed, a
\* non-empty error exactly when its status is Failed, and a non-empty Results
\* list only when its status is Completed.
C35_RecordShape ==
    \A rec \in PersistedRecords :
        /\ rec.completed_at # NoTime <=> rec.status = StatusCompleted
        /\ rec.error # NoError <=> rec.status = StatusFailed
        /\ rec.results # <<>> => rec.status = StatusCompleted

\* a failed record, with its error, and a completed one, with a Result and
\* its completion time, have been persisted
C35_Witness ==
    /\ \E rec \in PersistedRecords : rec.status = StatusFailed /\ rec.error # NoError
    /\ \E rec \in PersistedRecords :
           /\ rec.status = StatusCompleted
           /\ rec.results # <<>>
           /\ rec.completed_at # NoTime

\* in this step worker w issues a write to the status store
Issues(w) == wlog'[w] # wlog[w] /\ wlog'[w] # <<>>

\* the last write worker w issued for its delivery
LastWrite(w) == wlog[w][Len(wlog[w])]

\* C36: while handling a message for job J a worker writes no status key
\* other than job:<J>: a step in which it issues a write leaves every other
\* key as it was, and every change of a published job's record is the write
\* of a worker handling that job.  With several workers on different jobs,
\* the record of each job is the one its worker wrote last, whatever the
\* interleaving: when a worker has finished a delivery of a job delivered
\* once, the stored record is the last record that worker stored.
C36_WritesOwnKeyOnly ==
    /\ [][\A w \in Workers :
            Issues(w) =>
                \A k \in JobIds : k # StatusKey(job'[w].id) => ~Written(k)]_vars
    /\ [][\A k \in JobIds :
            (sent[k] # NoJob /\ store'[k] # store[k]) =>
                \E w \in Workers :
                    /\ Issues(w)
                    /\ job'[w].id = k
                    /\ wlog'[w][Len(wlog'[w])] = [doc |-> store'[k], ok |-> TRUE]]_vars
    /\ [](\A w \in Workers :
            (pc[w] = "done" /\ copies[job[w].id] = 1) =>
                LET stored == {n \in 1..Len(wlog[w]) : wlog[w][n].ok}
                    k == StatusKey(job[w].id)
                IN  IF stored = {}
                    THEN store[k] = sent[job[w].id]
                    ELSE store[k] = wlog[w][Max(CHOOSE n \in stored :
                                                   \A m \in stored : m <= n, 1)].doc)

\* two workers have each finished a different job, every write stored: each
\* job's record is the completed record its own worker wrote
C36_Witness ==
    \E w1, w2 \in Workers :
        /\ w1 # w2
        /\ pc[w1] = "done" /\ pc[w2] = "done"
        /\ job[w1].id # job[w2].id
        /\ LastWrite(w1).ok /\ LastWrite(w2).ok
        /\ store[StatusKey(job[w1].id)] = LastWrite(w1).doc
        /\ store[StatusKey(job[w2].id)] = LastWrite(w2).doc
        /\ writer[StatusKey(job[w1].id)].id = job[w1].id
        /\ writer[StatusKey(job[w2].id)].id = job[w2].id

\* a record is stored under k, nothing was published for k and no handler
\* is about to publish it
Unqueued(k) ==
    /\ Stored(k)
    /\ sent[k] = NoJob
    /\ ~\E j \in inflight : j.id = k

\* this step is an admission handler's call that failed
SaveFails == nextId' # nextId /\ faults' # faults
PublishFails == inflight' # inflight /\ nextId' = nextId /\ faults' # faults

\* C37 (as claimed): an admission request answered with an error leaves the
\* status store and the queue unchanged: no job record exists without a
\* corresponding queued message (published, or about to be by the handler
\* that stored it).
C37_ErrorLeavesNoRecord == \A k \in JobIds : ~Unqueued(k)

\* C37 (amended): a request rejected for its method, its body or its empty
\* source reference writes nothing; a failed write of the Pending record
\* leaves store and queue unchanged and publishes nothing; a failed publish
\* leaves the queue unchanged and the Pending record stored.  A record
\* without a message is therefore the Pending record of a failed publish:
\* written by the admission handler, never delivered to a worker.
C37_ErrorEffects ==
    /\ [](\A req \in RejectedRequests, ok \in BOOLEAN : ~ENABLED ApiSave(req, ok))
    /\ [][SaveFails =>
            /\ store' = store /\ expiry' = expiry
            /\ queue' = queue /\ sent' = sent
            /\ inflight' = inflight]_vars
    /\ [][PublishFails =>
            /\ store' = store /\ expiry' = expiry
            /\ queue' = queue /\ sent' = sent
            /\ \A j \in inflight \ inflight' :
                   /\ store[StatusKey(j.id)] = Marshal(j)
                   /\ Unqueued(j.id)']_vars
    /\ [](\A k \in JobIds :
            Unqueued(k) =>
                /\ k <= nextId
                /\ store[k].status = StatusPending
                /\ writer[k] = [by |-> "api"]
                /\ copies[k] = 0
                /\ \A w \in Workers : Handling(w) => job[w].id # k)

\* a publish failed: the Pending record is stored, the queue is empty and
\* nothing was published
C37_Witness ==
    \E k \in JobIds :
        /\ Unqueued(k)
        /\ store[k].status = StatusPending
        /\ queue = <<>>
        /\ faults > 0

\* the head of the queue is a Job document
JobAtHead == queue # <<>> /\ DOMAIN Head(queue).body \subseteq JobFields

\* in this step the message at the head of the queue is taken off the queue
HeadTaken == queue # <<>> /\ queue' = Tail(queue)

\* C38: the worker processes a delivered job whatever status the message
\* carries.  A worker at the top of its loop takes the Job document at the
\* head of the queue, be its status pending, in_progress, completed or
\* failed; having taken it, its next step is the write of the record with
\* status in_progress, before anything else is done for the delivery; and
\* when that write succeeds the stored record reads in_progress.
C38_ProcessedWhateverStatus ==
    /\ [](\A w \in Workers :
            /\ (pc[w] = "idle" /\ JobAtHead) => ENABLED Receive(w)
            /\ pc[w] = "mark" =>
                   /\ ENABLED MarkInProgress(w, TRUE)
                   /\ wlog[w] = <<>> /\ attempts[w] = <<>> /\ img[w] = NoImage
            /\ wlog[w] # <<>> => wlog[w][1].doc.status = StatusInProgress
            /\ pc[w] \in {"download", "blocked", "ops", "failed", "save", "done"} =>
                   wlog[w] # <<>>)
    /\ [][(HeadTaken /\ JobAtHead) =>
            \E w \in Workers :
                /\ pc[w] = "idle" /\ pc'[w] = "mark"
                /\ job'[w] = Unmarshal(Head(queue).body)]_vars
    /\ [][\A w \in Workers :
            /\ (pc[w] = "mark" /\ pc'[w] # "mark" /\ wlog'[w] # <<>>) =>
                   /\ pc'[w] = "download"
                   /\ wlog'[w][1].ok =>
                          /\ store'[StatusKey(job[w].id)].status = StatusInProgress
                          /\ store'[StatusKey(job[w].id)].id = job[w].id]_vars

\* a worker took a message that carried a completed record (the job still
\* holds its completion time and Results) and has overwritten the stored
\* record with status in_progress
C38_Witness ==
    \E w \in Workers :
        /\ pc[w] = "download"
        /\ job[w].completed_at # NoTime
        /\ job[w].results # <<>>
        /\ wlog[w][1].ok
        /\ store[StatusKey(job[w].id)].status = StatusInProgress

=============================================================================
